---------------------------- MODULE Spec2Model ----------------------------
(***************************************************************************)
(* A model of the retrieval pipeline of the LINE/RAG backend:              *)
(*   app/rag/document_processor.py  DocumentProcessor                      *)
(*   app/rag/vector_store.py        VectorStore (the Chroma collection)    *)
(*   app/rag/rag_service.py         RAGService                             *)
(*                                                                         *)
(* Text and bytes are sequences of one-character strings.  A filename is   *)
(* such a sequence too, so that Path(filename).suffix.lower() is computed  *)
(* and not assumed.                                                        *)
(***************************************************************************)
EXTENDS Integers, Sequences, FiniteSets, Bags, TLC

(***************************************************************************)
(* app/core/config.py: Settings.  Every field is read from the environment *)
(* (pydantic BaseSettings) when the process starts and stays as it is:     *)
(* `config` is the configuration the process runs under.  The model uses   *)
(* small values, chunk_overlap < chunk_size.                               *)
(***************************************************************************)
VARIABLE config

\* get_settings()
settings == config

\* The configuration the requests of the service are explored under.
DeployedSettings ==
    [ chunk_size    |-> 4,
      chunk_overlap |-> 1,
      max_file_size |-> 5 ]

\* The model never holds more than MaxChunks chunks in the collection.
MaxChunks == 4

\* top_k of a query ranges over 1..MaxK.
MaxK == 2

None == "None"

---------------------------------------------------------------------------
(* Generic sequence helpers.                                               *)

Range(s) == { s[i] : i \in 1..Len(s) }

RECURSIVE Concat(_)
Concat(ss) == IF ss = << >> THEN << >> ELSE Head(ss) \o Concat(Tail(ss))

\* str.rfind(c), 1-based; 0 when c does not occur.
rfind(s, c) ==
    LET at == { i \in 1..Len(s) : s[i] = c }
    IN  IF at = {} THEN 0 ELSE CHOOSE i \in at : \A j \in at : j <= i

\* The least index >= from where sep occurs in text; 0 when there is none.
find(text, sep, from) ==
    LET at == { i \in from..(Len(text) - Len(sep) + 1) :
                    SubSeq(text, i, i + Len(sep) - 1) = sep }
    IN  IF at = {} THEN 0 ELSE CHOOSE i \in at : \A j \in at : i <= j

---------------------------------------------------------------------------
(* DocumentProcessor.is_supported                                          *)

SUPPORTED_EXTENSIONS ==
    { <<".", "t", "x", "t">>, <<".", "p", "d", "f">>,
      <<".", "d", "o", "c", "x">>, <<".", "m", "d">>,
      <<".", "j", "s", "o", "n">>, <<".", "c", "s", "v">> }

\* str.lower() on the letters the model's filenames use.
lower_char(c) ==
    CASE c = "T" -> "t"
      [] c = "X" -> "x"
      [] c = "M" -> "m"
      [] c = "D" -> "d"
      [] c = "P" -> "p"
      [] c = "F" -> "f"
      [] c = "E" -> "e"
      [] OTHER   -> c

lower(s) == [ i \in 1..Len(s) |-> lower_char(s[i]) ]

\* PurePath.name: the final path component.
path_name(filename) ==
    LET i == rfind(filename, "/")
    IN  SubSeq(filename, i + 1, Len(filename))

\* PurePath.suffix: name[i:] for i = name.rfind('.') when 0 < i < len(name) - 1
\* (0-based), else ''.  A leading dot or a trailing dot gives no suffix.
path_suffix(filename) ==
    LET name == path_name(filename)
        i    == rfind(name, ".")
    IN  IF 1 < i /\ i < Len(name) THEN SubSeq(name, i, Len(name)) ELSE << >>

is_supported_or_no_suffix(filename) ==
    \/ path_suffix(filename) = << >>
    \/ lower(path_suffix(filename)) \in SUPPORTED_EXTENSIONS

is_supported(filename) ==
    lower(path_suffix(filename)) \in SUPPORTED_EXTENSIONS

---------------------------------------------------------------------------
(* RecursiveCharacterTextSplitter(chunk_size, chunk_overlap,               *)
(*   length_function=len, separators=["\n\n", "\n", " ", ""])              *)
(* as constructed in DocumentProcessor.__init__; keep_separator and        *)
(* strip_whitespace keep the library's defaults (True).                    *)

NL == "\n"

separators == << <<NL, NL>>, <<NL>>, <<" ">>, << >> >>

IsSpace(c) == c \in {" ", NL}

\* str.strip()
RECURSIVE lstrip(_)
lstrip(s) == IF s # << >> /\ IsSpace(Head(s)) THEN lstrip(Tail(s)) ELSE s

RECURSIVE rstrip(_)
rstrip(s) ==
    IF s # << >> /\ IsSpace(s[Len(s)]) THEN rstrip(SubSeq(s, 1, Len(s) - 1)) ELSE s

strip(s) == rstrip(lstrip(s))

\* re.split(sep, text) for a literal, non-empty sep: the pieces between the
\* leftmost non-overlapping occurrences of sep.
RECURSIVE re_split(_, _)
re_split(text, sep) ==
    LET i == find(text, sep, 1)
    IN  IF i = 0 THEN << text >>
        ELSE << SubSeq(text, 1, i - 1) >>
             \o re_split(SubSeq(text, i + Len(sep), Len(text)), sep)

\* _split_text_with_regex(text, separator, keep_separator=True): each
\* separator is kept at the start of the piece that follows it; empty pieces
\* are dropped.  With the empty separator the pieces are the characters.
split_text_with_regex(text, sep) ==
    LET raw    == re_split(text, sep)
        splits == IF sep = << >>
                  THEN [ i \in 1..Len(text) |-> << text[i] >> ]
                  ELSE [ i \in 1..Len(raw) |->
                           IF i = 1 THEN raw[1] ELSE sep \o raw[i] ]
    IN  SelectSeq(splits, LAMBDA s : s # << >>)

join_docs_keeps_blank(docs) == << strip(Concat(docs)) >>

\* TextSplitter._join_docs with separator "": the stripped concatenation, or
\* nothing when that is empty.
join_docs(docs) ==
    LET text == strip(Concat(docs))
    IN  IF text = << >> THEN << >> ELSE << text >>

RECURSIVE merge_pop_until_it_fits(_, _)
merge_pop_until_it_fits(m, len) ==
    IF m.total + len > settings.chunk_size /\ m.total > 0
    THEN merge_pop_until_it_fits([ cur   |-> Tail(m.cur),
                                   total |-> m.total - Len(Head(m.cur)) ],
                                 len)
    ELSE m

\* The while loop of _merge_splits: drop pieces from the front of
\* current_doc while it is longer than the overlap, or while the next piece
\* still would not fit.  m = [cur, total].
RECURSIVE merge_pop(_, _)
merge_pop(m, len) ==
    IF m.total > settings.chunk_overlap
       \/ (m.total + len > settings.chunk_size /\ m.total > 0)
    THEN merge_pop([ cur   |-> Tail(m.cur),
                     total |-> m.total - Len(Head(m.cur)) ], len)
    ELSE m

\* TextSplitter._merge_splits(splits, separator="") : st = [docs, cur, total].
RECURSIVE merge_loop(_, _)
merge_loop(splits, st) ==
    IF splits = << >>
    THEN st.docs \o join_docs(st.cur)
    ELSE LET d    == Head(splits)
             len  == Len(d)
             over == st.total + len > settings.chunk_size
             emit == over /\ Len(st.cur) > 0
             m    == IF emit
                     THEN merge_pop([cur |-> st.cur, total |-> st.total], len)
                     ELSE [cur |-> st.cur, total |-> st.total]
         IN  merge_loop(Tail(splits),
                        [ docs  |-> IF emit THEN st.docs \o join_docs(st.cur)
                                            ELSE st.docs,
                          cur   |-> Append(m.cur, d),
                          total |-> m.total + len ])

merge_splits(splits) ==
    merge_loop(splits, [docs |-> << >>, cur |-> << >>, total |-> 0])

\* The separator _split_text picks: the first of `seps` that occurs in the
\* text, the empty one matching always; the index into seps.
RECURSIVE pick_separator(_, _, _)
pick_separator(text, seps, i) ==
    IF i >= Len(seps) THEN Len(seps)
    ELSE IF seps[i] = << >> \/ find(text, seps[i], 1) # 0 THEN i
    ELSE pick_separator(text, seps, i + 1)

\* RecursiveCharacterTextSplitter._split_text
RECURSIVE split_text_rec(_, _)
RECURSIVE split_pieces(_, _, _, _)
split_pieces(splits, new_seps, good, final) ==
    IF splits = << >>
    THEN IF good # << >> THEN final \o merge_splits(good) ELSE final
    ELSE LET s == Head(splits)
         IN  IF Len(s) < settings.chunk_size
             THEN split_pieces(Tail(splits), new_seps, Append(good, s), final)
             ELSE LET flushed == IF good # << >>
                                 THEN final \o merge_splits(good) ELSE final
                      here    == IF new_seps = << >> THEN << s >>
                                 ELSE split_text_rec(s, new_seps)
                  IN  split_pieces(Tail(splits), new_seps, << >>,
                                   flushed \o here)

split_text_rec(text, seps) ==
    LET i        == pick_separator(text, seps, 1)
        sep      == seps[i]
        new_seps == IF sep = << >> THEN << >>
                    ELSE SubSeq(seps, i + 1, Len(seps))
    IN  split_pieces(split_text_with_regex(text, sep), new_seps, << >>, << >>)

split_text(text) == split_text_rec(text, separators)

---------------------------------------------------------------------------
(* DocumentProcessor: the loaders and process_file                         *)

\* A byte that is no valid UTF-8.
BadByte == "0xFF"

\* os.path.join(settings.upload_dir, filename): an absolute filename
\* replaces the directory.
file_path_of(filename) ==
    IF filename # << >> /\ Head(filename) = "/" THEN filename
    ELSE << "upload_dir", "/" >> \o filename

\* _read_text_file: open(file_path, "r", encoding="utf-8").read().  ASCII
\* bytes decode to themselves; an invalid byte raises UnicodeDecodeError.
read_text_file(bytes) ==
    IF BadByte \in Range(bytes)
    THEN [error |-> "CorruptDocument", text |-> << >>]
    ELSE [error |-> None, text |-> bytes]

\* "\n\n".join(parts)
RECURSIVE join_blank_line(_)
join_blank_line(parts) ==
    IF parts = << >> THEN << >>
    ELSE IF Len(parts) = 1 THEN parts[1]
    ELSE parts[1] \o << NL, NL >> \o join_blank_line(Tail(parts))

\* _read_pdf_file / _read_docx_file: `parsed` is what the external parser
\* (pypdf, python-docx) makes of the file: it raises (corrupt), or gives the
\* texts of the pages (paragraphs).  Empty ones are skipped, the rest joined
\* by a blank line.
read_parsed_file(parsed) ==
    IF parsed.corrupt
    THEN [error |-> "CorruptDocument", text |-> << >>]
    ELSE [error |-> None,
          text  |-> join_blank_line(SelectSeq(parsed.parts,
                                              LAMBDA t : t # << >>))]

\* The loop over enumerate(chunks): chunk_index = i, total_chunks = len(chunks).
tag_chunks_one_based(texts, filename) ==
    [ i \in 1..Len(texts) |->
        [ page_content |-> texts[i],
          source       |-> filename,
          file_path    |-> file_path_of(filename),
          chunk_index  |-> i,
          total_chunks |-> Len(texts) ] ]

tag_chunks(texts, filename) ==
    [ i \in 1..Len(texts) |->
        [ page_content |-> texts[i],
          source       |-> filename,
          file_path    |-> file_path_of(filename),
          chunk_index  |-> i - 1,
          total_chunks |-> Len(texts) ] ]

\* process_file(file_path, filename): `bytes` is the file at file_path.
process_file(bytes, filename, parsed) ==
    LET ext  == lower(path_suffix(filename))
        read == IF ext \in { <<".", "p", "d", "f">>, <<".", "d", "o", "c", "x">> }
                THEN read_parsed_file(parsed)
                ELSE IF ext \in SUPPORTED_EXTENSIONS
                THEN read_text_file(bytes)
                ELSE [error |-> "UnsupportedFormat", text |-> << >>]
    IN  IF read.error # None
        THEN [error |-> read.error, chunks |-> << >>]
        ELSE [error |-> None,
              chunks |-> tag_chunks(split_text(read.text), filename)]

---------------------------------------------------------------------------
(* VectorStore: the Chroma collection "documents".  Chroma keeps every     *)
(* record under a uuid4 of its own, which no operation of the service      *)
(* shows; the collection is the bag of its records, so that two uploads of *)
(* the same chunk are two records.                                         *)

\* The collection without the records `gone`.
without(coll, gone) ==
    [ c \in BagToSet(coll) \ gone |-> coll[c] ]

\* The bag of the first n of `documents`.
RECURSIVE bag_of(_, _)
bag_of(documents, n) ==
    IF n = 0 THEN EmptyBag
    ELSE bag_of(documents, n - 1) (+) SetToBag({ documents[n] })

\* The collection after the first n of `documents` were persisted.
persist(coll, documents, n) == coll (+) bag_of(documents, n)

add_documents_returns_total(coll, documents, outcome, n) ==
    IF documents = << >>
    THEN [collection |-> coll, error |-> None, value |-> 0]
    ELSE IF outcome = "ok"
    THEN [collection |-> persist(coll, documents, Len(documents)),
          error |-> None,
          value |-> BagCardinality(coll) + Len(documents)]
    ELSE IF outcome = "embed_fail"
    THEN [collection |-> coll, error |-> "EmbeddingFailure", value |-> 0]
    ELSE [collection |-> persist(coll, documents, n),
          error |-> "StorageFailure", value |-> 0]

add_documents_replacing_source(coll, documents, outcome, n) ==
    LET kept == without(coll, { c \in BagToSet(coll) :
                                  \E i \in 1..Len(documents) :
                                      c.source = documents[i].source })
    IN  IF documents = << >>
        THEN [collection |-> coll, error |-> None, value |-> 0]
        ELSE IF outcome = "ok"
        THEN [collection |-> persist(kept, documents, Len(documents)),
              error |-> None, value |-> Len(documents)]
        ELSE IF outcome = "embed_fail"
        THEN [collection |-> coll, error |-> "EmbeddingFailure", value |-> 0]
        ELSE [collection |-> persist(coll, documents, n),
              error |-> "StorageFailure", value |-> 0]

\* VectorStore.add_documents.  The call into Chroma embeds every text and
\* then upserts the records; it either returns ("ok"), raises before anything
\* was written ("embed_fail": the embedding model failed), or raises from the
\* storage engine with the first n records already persisted ("store_fail").
add_documents(coll, documents, outcome, n) ==
    IF documents = << >>
    THEN [collection |-> coll, error |-> None, value |-> 0]
    ELSE IF outcome = "ok"
    THEN [collection |-> persist(coll, documents, Len(documents)),
          error |-> None, value |-> Len(documents)]
    ELSE IF outcome = "embed_fail"
    THEN [collection |-> coll, error |-> "EmbeddingFailure", value |-> 0]
    ELSE [collection |-> persist(coll, documents, n),
          error |-> "StorageFailure", value |-> 0]

delete_by_source_everything(coll, source) ==
    LET found == { c \in BagToSet(coll) : c.source = source }
    IN  IF found # {}
        THEN [collection |-> EmptyBag, value |-> TRUE]
        ELSE [collection |-> coll, value |-> FALSE]

delete_by_source_first_chunk(coll, source) ==
    LET found == { c \in BagToSet(coll) :
                     c.source = source /\ c.chunk_index = 0 }
    IN  IF found # {}
        THEN [collection |-> without(coll, found), value |-> TRUE]
        ELSE [collection |-> coll, value |-> FALSE]

\* VectorStore.delete_by_source: collection.get(where={"source": source}),
\* then collection.delete(ids) when there are any.
delete_by_source(coll, source) ==
    LET found == { c \in BagToSet(coll) : c.source = source }
    IN  IF found # {}
        THEN [collection |-> without(coll, found), value |-> TRUE]
        ELSE [collection |-> coll, value |-> FALSE]

\* VectorStore.get_all_sources: the set built from the metadatas.
get_all_sources(coll) == { c.source : c \in BagToSet(coll) }

get_document_count_distinct(coll) == Cardinality(BagToSet(coll))

\* VectorStore.get_document_count
get_document_count(coll) == BagCardinality(coll)

---------------------------------------------------------------------------
(* The embedding model and Chroma's similarity search.                     *)

\* HuggingFaceEmbeddings.embed: an external model, a pure function of the
\* text.  Here: how often each of these characters occurs in it.
EmbeddingAxes == << "a", "b", "c", "d", "x", "y" >>

embed(text) ==
    [ k \in 1..Len(EmbeddingAxes) |->
        Cardinality({ i \in 1..Len(text) : text[i] = EmbeddingAxes[k] }) ]

RECURSIVE sum_squares(_, _, _)
sum_squares(u, v, k) ==
    IF k = 0 THEN 0
    ELSE (u[k] - v[k]) * (u[k] - v[k]) + sum_squares(u, v, k - 1)

\* The score Chroma reports: the squared L2 distance, lower is nearer.
distance(u, v) == sum_squares(u, v, Len(EmbeddingAxes))

\* The records of coll, nearest to the query first, at most k of them.
\* Among records at the same distance the index's order decides: one fixed
\* order, which CHOOSE stands for.
RECURSIVE nearest(_, _, _)
nearest(coll, qv, k) ==
    IF k = 0 \/ BagToSet(coll) = {} THEN << >>
    ELSE LET d(c) == distance(embed(c.page_content), qv)
             best == CHOOSE c \in BagToSet(coll) :
                        \A o \in BagToSet(coll) : d(c) <= d(o)
         IN  << best >> \o nearest(coll (-) SetToBag({best}), qv, k - 1)

\* VectorStore.search_with_scores: (document, score) pairs.
search_with_scores(coll, query_text, top_k) ==
    LET qv   == embed(query_text)
        docs == nearest(coll, qv, top_k)
    IN  [ i \in 1..Len(docs) |->
            << docs[i], distance(embed(docs[i].page_content), qv) >> ]

---------------------------------------------------------------------------
(* RAGService                                                              *)

\* The upload directory: the files that exist, each path with its bytes.
write_file(fs, path, bytes) ==
    [ p \in DOMAIN fs \cup {path} |-> IF p = path THEN bytes ELSE fs[p] ]

remove_file_noop(fs, path) == fs

\* if os.path.exists(file_path): os.remove(file_path)
remove_file(fs, path) ==
    [ p \in DOMAIN fs \ {path} |-> fs[p] ]

too_large_or_equal(content) == Len(content) >= settings.max_file_size

\* len(content) > self.settings.max_file_size
too_large(content) == Len(content) > settings.max_file_size

\* The steps of upload_document in the order of its statements.
UploadSteps == << "a", "b", "c", "d", "e" >>

upload_document_size_first(coll, fs, filename, content, parsed, outcome, n) ==
    IF too_large(content)
    THEN [collection |-> coll, files |-> fs, error |-> "FileTooLarge",
          value |-> << >>, step |-> "b", started |-> << "b" >>]
    ELSE IF ~ is_supported(filename)
    THEN [collection |-> coll, files |-> fs, error |-> "UnsupportedFormat",
          value |-> << >>, step |-> "a", started |-> << "b", "a" >>]
    ELSE LET path  == file_path_of(filename)
             saved == write_file(fs, path, content)
             pf    == process_file(saved[path], filename, parsed)
             added == add_documents(coll, pf.chunks, outcome, n)
         IN  IF pf.error # None
             THEN [collection |-> coll, files |-> remove_file(saved, path),
                   error |-> pf.error, value |-> << >>, step |-> "d",
                   started |-> << "b", "a", "c", "d" >>]
             ELSE IF added.error # None
             THEN [collection |-> added.collection,
                   files |-> remove_file(saved, path),
                   error |-> added.error, value |-> << >>, step |-> "e",
                   started |-> << "b", "a", "c", "d", "e" >>]
             ELSE [collection |-> added.collection, files |-> saved,
                   error |-> None, value |-> << filename, added.value >>,
                   step |-> None, started |-> << "b", "a", "c", "d", "e" >>]

\* RAGService.upload_document.  `step` names the gate that failed and
\* `started` the steps that were begun, in the order they were begun:
\* (a) is_supported, (b) read the body and compare its length, (c) write the
\* raw file, (d) process_file, (e) add_documents.
upload_document(coll, fs, filename, content, parsed, outcome, n) ==
    IF ~ is_supported(filename)
    THEN [collection |-> coll, files |-> fs, error |-> "UnsupportedFormat",
          value |-> << >>, step |-> "a", started |-> SubSeq(UploadSteps, 1, 1)]
    ELSE IF too_large(content)
    THEN [collection |-> coll, files |-> fs, error |-> "FileTooLarge",
          value |-> << >>, step |-> "b", started |-> SubSeq(UploadSteps, 1, 2)]
    ELSE LET path  == file_path_of(filename)
             saved == write_file(fs, path, content)
             pf    == process_file(saved[path], filename, parsed)
             added == add_documents(coll, pf.chunks, outcome, n)
         IN  IF pf.error # None
             THEN [collection |-> coll, files |-> remove_file(saved, path),
                   error |-> pf.error, value |-> << >>, step |-> "d",
                   started |-> SubSeq(UploadSteps, 1, 4)]
             ELSE IF added.error # None
             THEN [collection |-> added.collection,
                   files |-> remove_file(saved, path),
                   error |-> added.error, value |-> << >>, step |-> "e",
                   started |-> UploadSteps]
             ELSE [collection |-> added.collection, files |-> saved,
                   error |-> None, value |-> << filename, added.value >>,
                   step |-> None, started |-> UploadSteps]

\* RAGService.query
query(coll, query_text, top_k) ==
    LET results == search_with_scores(coll, query_text, top_k)
    IN  [ i \in 1..Len(results) |->
            [ content     |-> results[i][1].page_content,
              source      |-> results[i][1].source,
              chunk_index |-> results[i][1].chunk_index,
              score       |-> results[i][2] ] ]

query_request_consuming(coll, fs, query_text, top_k) ==
    LET results == query(coll, query_text, top_k)
    IN  [ collection |-> without(coll, { c \in BagToSet(coll) :
                             \E i \in 1..Len(results) :
                                 c.page_content = results[i].content }),
          files |-> fs, value |-> results ]

\* RAGService.query as a step of the service: it reads the store and writes
\* neither the store nor the upload directory.
query_request(coll, fs, query_text, top_k) ==
    [ collection |-> coll, files |-> fs,
      value |-> query(coll, query_text, top_k) ]

\* str(i) for the positions a context can hold.
str_of(i) ==
    CASE i = 1 -> "1" [] i = 2 -> "2" [] i = 3 -> "3" [] i = 4 -> "4"
      [] OTHER -> "5"

\* f"[Document {i}] (Source: {result['source']})\n{result['content']}"
context_part(i, result) ==
    << "[Document ", str_of(i), "] (Source: " >> \o result.source
       \o << ")", NL >> \o result.content

\* "\n\n---\n\n".join(context_parts)
RECURSIVE join_rule(_)
join_rule(parts) ==
    IF parts = << >> THEN << >>
    ELSE IF Len(parts) = 1 THEN parts[1]
    ELSE parts[1] \o << NL, NL, "-", "-", "-", NL, NL >>
         \o join_rule(Tail(parts))

\* list(a set): the elements, each once, in an order the caller cannot rely on.
Enumerations(S) ==
    { e \in [ 1..Cardinality(S) -> S ] :
        \A i, j \in 1..Cardinality(S) : e[i] = e[j] => i = j }

get_context_message_when_empty(coll, query_text, top_k, order) ==
    LET results == query(coll, query_text, top_k)
    IN  IF results = << >> THEN << << "No relevant documents found." >>, << >> >>
        ELSE << join_rule([ i \in 1..Len(results) |->
                              context_part(i, results[i]) ]), order >>

\* RAGService.get_context_for_query; `order` is the order list(sources) gives
\* the set of the results' sources.
get_context_for_query(coll, query_text, top_k, order) ==
    LET results == query(coll, query_text, top_k)
    IN  IF results = << >> THEN << << >>, << >> >>
        ELSE << join_rule([ i \in 1..Len(results) |->
                              context_part(i, results[i]) ]), order >>

delete_document_or_file(coll, fs, filename, store_fails) ==
    LET r    == delete_by_source(coll, filename)
        path == file_path_of(filename)
    IN  IF store_fails
        THEN [collection |-> coll, files |-> fs,
              error |-> "StorageFailure", value |-> FALSE]
        ELSE [collection |-> r.collection, files |-> remove_file(fs, path),
              error |-> None, value |-> r.value \/ path \in DOMAIN fs]

\* RAGService.delete_document.  When the store raises, nothing after the
\* call into it runs.
delete_document(coll, fs, filename, store_fails) ==
    LET r    == delete_by_source(coll, filename)
        path == file_path_of(filename)
    IN  IF store_fails
        THEN [collection |-> coll, files |-> fs,
              error |-> "StorageFailure", value |-> FALSE]
        ELSE [collection |-> r.collection, files |-> remove_file(fs, path),
              error |-> None, value |-> r.value]

\* RAGService.get_stats; `order` as in get_context_for_query.
get_stats(coll, order) ==
    [ total_chunks    |-> get_document_count(coll),
      total_documents |-> Len(order),
      documents       |-> order ]

---------------------------------------------------------------------------
(* LineHandler (app/line/line_handler.py).  The handler's state is the     *)
(* record h = [conversations, use_rag, default_provider]; conversations    *)
(* maps the user ids that have a key to their history, a sequence of       *)
(* ChatMessage records [role, content].                                    *)

\* if len(history) > 20: history = history[-20:]
MAX_HISTORY == 20

\* text[:5000]
LINE_TEXT_LIMIT == 5000

\* messages[:5]
LINE_MAX_MESSAGES == 5

\* top_k of get_context_for_query when the caller gives none
DEFAULT_TOP_K == 3

\* The values of LLMProvider.
LLMProvider ==
    { << "o", "l", "l", "a", "m", "a" >>, << "o", "p", "e", "n", "a", "i" >>,
      << "g", "e", "m", "i", "n", "i" >>,
      << "d", "e", "e", "p", "s", "e", "e", "k" >> }

\* str.split(): the words between runs of white space.
RECURSIVE split_words(_)
split_words(s) ==
    LET t == lstrip(s)
    IN  IF t = << >> THEN << >>
        ELSE LET spaces == { i \in 1..Len(t) : IsSpace(t[i]) }
                 e == IF spaces = {} THEN Len(t) + 1
                      ELSE CHOOSE i \in spaces : \A j \in spaces : i <= j
             IN  << SubSeq(t, 1, e - 1) >>
                 \o split_words(SubSeq(t, e, Len(t)))

\* "\n".join(f"- {d}" for d in docs)
RECURSIVE join_doc_lines(_)
join_doc_lines(docs) ==
    IF docs = << >> THEN << >>
    ELSE IF Len(docs) = 1 THEN << "-", " " >> \o docs[1]
    ELSE << "-", " " >> \o docs[1] \o << NL >> \o join_doc_lines(Tail(docs))

set_item_every_key(d, key, value) ==
    [ k \in DOMAIN d \cup { key } |-> value ]

\* d[key] = value on a dict
set_item(d, key, value) ==
    [ k \in DOMAIN d \cup { key } |-> IF k = key THEN value ELSE d[k] ]

\* A call the handler makes to a collaborator: "rag" (get_context_for_query),
\* "llm" (generate, with the provider, the history and the context passed),
\* "list" (list_documents), "reply" (the LINE API, with the messages sent).
\* `event` is the position in the webhook request of the event it is for.
Call(kind, provider, history, context, messages) ==
    [ call |-> kind, provider |-> provider, history |-> history,
      context |-> context, messages |-> messages, event |-> 0 ]

\* LineHandler._handle_command.  `docs` is what rag_service.list_documents()
\* returns.  The fixed answers are one token each.
handle_command(h, command, user_id, docs) ==
    LET parts == split_words(command)
        cmd   == lower(parts[1])
        arg   == IF Len(parts) > 1 THEN lower(parts[2]) ELSE << >>
        same(text)   == [ handler |-> h, response |-> text, calls |-> << >> ]
    IN  IF cmd = << "/", "c", "l", "e", "a", "r" >>
        THEN [ handler  |-> [ h EXCEPT !.conversations =
                                           set_item(@, user_id, << >>) ],
               response |-> << "Conversation history cleared." >>,
               calls    |-> << >> ]
        ELSE IF cmd = << "/", "h", "e", "l", "p" >>
        THEN same(<< "Available commands: ..." >>)
        ELSE IF cmd = << "/", "r", "a", "g" >>
        THEN IF Len(parts) > 1 /\ arg = << "o", "n" >>
             THEN [ handler  |-> [ h EXCEPT !.use_rag = TRUE ],
                    response |-> << "RAG enabled." >>, calls |-> << >> ]
             ELSE IF Len(parts) > 1 /\ arg = << "o", "f", "f" >>
             THEN [ handler  |-> [ h EXCEPT !.use_rag = FALSE ],
                    response |-> << "RAG disabled." >>, calls |-> << >> ]
             ELSE same(IF h.use_rag THEN << "RAG is currently enabled." >>
                       ELSE << "RAG is currently disabled." >>)
        ELSE IF cmd = << "/", "p", "r", "o", "v", "i", "d", "e", "r" >>
        THEN IF Len(parts) > 1
             THEN IF arg \in LLMProvider
                  THEN [ handler  |-> [ h EXCEPT !.default_provider = arg ],
                         response |-> << "Switched to " >> \o arg
                                         \o << " provider." >>,
                         calls    |-> << >> ]
                  ELSE same(<< "Invalid provider. Use: ollama, openai, gemini, or deepseek" >>)
             ELSE same(<< "Current provider: " >> \o h.default_provider)
        ELSE IF cmd = << "/", "d", "o", "c", "s" >>
        THEN [ handler  |-> h,
               response |-> IF docs # << >>
                            THEN << "Uploaded documents:", NL >>
                                    \o join_doc_lines(docs)
                            ELSE << "No documents uploaded." >>,
               calls    |-> << Call("list", << >>, << >>, << >>, << >>) >> ]
        ELSE same(<< "Unknown command. Type /help for available commands." >>)

\* The LLM is outside: given the message it returns some text.  Here: the
\* message behind an "r", so that a response tells which message it answers.
llm_generate(message) == << "r" >> \o message

trim_history_keeps_oldest(history) ==
    IF Len(history) > MAX_HISTORY
    THEN SubSeq(history, 1, MAX_HISTORY)
    ELSE history

\* if len(history) > 20: history = history[-20:]
trim_history(history) ==
    IF Len(history) > MAX_HISTORY
    THEN SubSeq(history, Len(history) - MAX_HISTORY + 1, Len(history))
    ELSE history

is_command_whole_text(user_message) == user_message = << "/" >>

\* user_message.startswith("/")
is_command(user_message) == user_message # << >> /\ user_message[1] = "/"

\* LineHandler.process_text_message, from its call to its return with no
\* other message of the handler in between.  `outcome` is how the
\* collaborators end: "rag_raises", "llm_raises", or they return.  `calls`
\* are the calls made to them, in order.
process_text_message(h, coll, user_id, user_message, outcome, docs) ==
    IF is_command(user_message)
    THEN handle_command(h, user_message, user_id, docs) @@ [ error |-> None ]
    ELSE LET history  == IF user_id \in DOMAIN h.conversations
                         THEN h.conversations[user_id] ELSE << >>
             rag_call == IF h.use_rag
                         THEN << Call("rag", << >>, << >>, << >>, << >>) >>
                         ELSE << >>
             context  == IF h.use_rag
                         THEN get_context_for_query(coll, user_message,
                                                    DEFAULT_TOP_K, << >>)[1]
                         ELSE << >>
             llm_call == << Call("llm", h.default_provider, history,
                                 context, << >>) >>
             response == llm_generate(user_message)
             appended == history
                           \o << [ role |-> "user", content |-> user_message ],
                                 [ role |-> "assistant", content |-> response ] >>
         IN  IF h.use_rag /\ outcome = "rag_raises"
             THEN [ handler |-> h, error |-> "EmbeddingFailure",
                    response |-> << >>, calls |-> rag_call ]
             ELSE [ handler |->
                      IF outcome = "llm_raises" THEN h
                      ELSE [ h EXCEPT !.conversations =
                               set_item(@, user_id, trim_history(appended)) ],
                    error |-> IF outcome = "llm_raises" THEN "LLMFailure"
                              ELSE None,
                    response |-> IF outcome = "llm_raises" THEN << >>
                                 ELSE response,
                    calls |-> rag_call \o llm_call ]

\* The while loop of reply_message: text[:5000], then text[5000:], until the
\* text is empty.
RECURSIVE reply_pieces(_)
reply_pieces(text) ==
    IF Len(text) = 0 THEN << >>
    ELSE IF Len(text) <= LINE_TEXT_LIMIT THEN << text >>
    ELSE << SubSeq(text, 1, LINE_TEXT_LIMIT) >>
         \o reply_pieces(SubSeq(text, LINE_TEXT_LIMIT + 1, Len(text)))

reply_message_sends_last(messaging_api, text, outcome) ==
    LET messages == reply_pieces(text)
        first    == SubSeq(messages,
                           IF Len(messages) > LINE_MAX_MESSAGES
                           THEN Len(messages) - LINE_MAX_MESSAGES + 1 ELSE 1,
                           Len(messages))
    IN  IF ~ messaging_api
        THEN [ error |-> "NotConfigured", calls |-> << >> ]
        ELSE [ error |-> IF outcome = "reply_raises" THEN "LineApiFailure"
                         ELSE None,
               calls |-> << Call("reply", << >>, << >>, << >>, first) >> ]

\* LineHandler.reply_message: one request to the LINE API with
\* messages[:5].  `outcome`: the API call raises ("reply_raises") or returns.
reply_message(messaging_api, text, outcome) ==
    LET messages == reply_pieces(text)
        first    == SubSeq(messages, 1,
                           IF Len(messages) > LINE_MAX_MESSAGES
                           THEN LINE_MAX_MESSAGES ELSE Len(messages))
    IN  IF ~ messaging_api
        THEN [ error |-> "NotConfigured", calls |-> << >> ]
        ELSE [ error |-> IF outcome = "reply_raises" THEN "LineApiFailure"
                         ELSE None,
               calls |-> << Call("reply", << >>, << >>, << >>, first) >> ]

---------------------------------------------------------------------------
(* POST /webhook/line (routes.line_webhook).  An event is                  *)
(* [type, message_type, user_id, text]; `oracle` gives for every event how *)
(* the collaborators end while it is processed.                            *)

\* The calls cs, marked as made for event i.
for_event(cs, i) == [ k \in 1..Len(cs) |-> [ cs[k] EXCEPT !.event = i ] ]

\* The body of the loop for a text message: process_text_message, then
\* reply_message with the response it returned.
process_event(r, ls, outcome) ==
    IF r.error # None
    THEN [ handler |-> r.handler, error |-> r.error, calls |-> r.calls ]
    ELSE LET sent == reply_message(ls.line_channel_access_token,
                                   r.response, outcome)
         IN  [ handler |-> r.handler, error |-> sent.error,
               calls |-> r.calls \o sent.calls ]

\* The for loop over data["events"], from the i-th event on.  An exception
\* ends the loop.
RECURSIVE process_events(_, _, _, _, _, _, _)
RECURSIVE next_event(_, _, _, _, _, _, _)
process_events(h, coll, ls, events, oracle, docs, i) ==
    IF i > Len(events)
    THEN [ handler |-> h, error |-> None, calls |-> << >> ]
    ELSE IF events[i].type = "message" /\ events[i].message_type = "text"
    THEN next_event(process_event(process_text_message(h, coll,
                                      events[i].user_id, events[i].text,
                                      oracle[i], docs),
                                  ls, oracle[i]),
                    coll, ls, events, oracle, docs, i)
    ELSE process_events(h, coll, ls, events, oracle, docs, i + 1)

\* After the i-th event was handled with the result r: the loop goes on
\* with the next event unless an exception was raised.
next_event(r, coll, ls, events, oracle, docs, i) ==
    IF r.error # None
    THEN [ r EXCEPT !.calls = for_event(@, i) ]
    ELSE [ process_events(r.handler, coll, ls, events, oracle, docs, i + 1)
             EXCEPT !.calls = for_event(r.calls, i) \o @ ]

\* The response of the webhook after the loop ended with r: {"status":
\* "ok"}, or 500 for an exception.
webhook_response(r) ==
    [ handler |-> r.handler, status |-> IF r.error = None THEN 200 ELSE 500,
      body_read |-> TRUE, calls |-> r.calls ]

line_webhook_parses_first(h, coll, ls, signature, missing_is_invalid, events, oracle, docs) ==
    IF ~ (ls.line_channel_secret /\ ls.line_channel_access_token)
    THEN [ handler |-> h, status |-> 503, body_read |-> FALSE,
           calls |-> << >> ]
    ELSE [ webhook_response(process_events(h, coll, ls, events, oracle,
                                           docs, 1))
             EXCEPT !.status =
               IF signature = "invalid"
                  \/ (signature = "missing" /\ missing_is_invalid)
               THEN 400
               ELSE IF signature = "missing" THEN 500 ELSE @ ]

\* routes.line_webhook.  `ls` tells which of line_channel_secret and
\* line_channel_access_token are set; `signature` is "valid", "invalid" or
\* "missing" (no X-Line-Signature header: the SDK raises, either
\* InvalidSignatureError or another exception).
line_webhook(h, coll, ls, signature, missing_is_invalid, events, oracle, docs) ==
    IF ~ (ls.line_channel_secret /\ ls.line_channel_access_token)
    THEN [ handler |-> h, status |-> 503, body_read |-> FALSE,
           calls |-> << >> ]
    ELSE IF signature = "invalid"
            \/ (signature = "missing" /\ missing_is_invalid)
    THEN [ handler |-> h, status |-> 400, body_read |-> TRUE,
           calls |-> << >> ]
    ELSE IF signature = "missing"
    THEN [ handler |-> h, status |-> 500, body_read |-> TRUE,
           calls |-> << >> ]
    ELSE webhook_response(process_events(h, coll, ls, events, oracle,
                                         docs, 1))

---------------------------------------------------------------------------
(* VectorStore.__new__ / __init__ and the RAGService instances.  A         *)
(* VectorStore object is [initialized, embeddings, vector_store]: the      *)
(* attribute _initialized and which embedding model and which Chroma       *)
(* client (0: the attribute is not set) the object holds.                  *)

NoObject == 0

VectorStore_new_always_allocates(instance, objects) ==
    [ instance |-> Len(objects) + 1,
      objects  |-> Append(objects, [ initialized  |-> FALSE,
                                     embeddings   |-> NoObject,
                                     vector_store |-> NoObject ]) ]

\* VectorStore.__new__: allocate when cls._instance is None; return
\* cls._instance.
VectorStore_new(instance, objects) ==
    IF instance = NoObject
    THEN [ instance |-> Len(objects) + 1,
           objects  |-> Append(objects, [ initialized  |-> FALSE,
                                          embeddings   |-> NoObject,
                                          vector_store |-> NoObject ]) ]
    ELSE [ instance |-> instance, objects |-> objects ]

\* VectorStore.__init__(self).  `made` counts the embedding models and the
\* Chroma clients constructed so far, `cl` holds what each Chroma client
\* stores (here: the sources); `outcome` is how the two constructors end.
VectorStore_init(objects, self, made, cl, outcome) ==
    IF objects[self].initialized
    THEN [ objects |-> objects, created |-> made, clients |-> cl,
           error |-> None ]
    ELSE IF outcome = "embeddings_raise"
    THEN [ objects |-> objects, created |-> made, clients |-> cl,
           error |-> "EmbeddingFailure" ]
    ELSE IF outcome = "chroma_raises"
    THEN [ objects |-> [ objects EXCEPT
                           ![self].embeddings = made.embeddings + 1 ],
           created |-> [ made EXCEPT !.embeddings = @ + 1 ],
           clients |-> cl, error |-> "StorageFailure" ]
    ELSE [ objects |-> [ objects EXCEPT
                           ![self] = [ initialized  |-> TRUE,
                                       embeddings   |-> made.embeddings + 1,
                                       vector_store |-> made.chroma + 1 ] ],
           created |-> [ embeddings |-> made.embeddings + 1,
                         chroma     |-> made.chroma + 1 ],
           clients |-> Append(cl, {}), error |-> None ]

\* RAGService.__init__: self.vector_store = VectorStore().  `service` is the
\* object the new RAGService holds, NoObject when the constructor raised.
RAGService_init(instance, objects, made, cl, outcome) ==
    LET new  == VectorStore_new(instance, objects)
        init == VectorStore_init(new.objects, new.instance, made, cl, outcome)
    IN  [ instance |-> new.instance, objects |-> init.objects,
          created |-> init.created, clients |-> init.clients,
          service |-> IF init.error = None THEN new.instance ELSE NoObject ]

---------------------------------------------------------------------------
(* The state and the requests.                                             *)

VARIABLES
    collection,   \* the records of the Chroma collection
    files,        \* the upload directory: path -> bytes
    ret           \* the request just handled and what it returned or
                  \* raised; NoRequest once the response is out

VARIABLES
    VectorStore_instance,  \* VectorStore._instance
    vector_stores,         \* the VectorStore objects allocated so far
    created,               \* how many embedding models / Chroma clients
                           \* were constructed
    clients,               \* what each Chroma client stores
    rag_services,          \* the vector_store of routes._rag_service (api)
                           \* and of the LineHandler's rag_service (line)
    seen                   \* the last listing: through which service, and
                           \* what it listed

VARIABLES
    conversations,     \* LineHandler.conversations
    use_rag,           \* LineHandler.use_rag
    default_provider,  \* LineHandler.default_provider
    line_settings,     \* which of line_channel_secret and
                       \* line_channel_access_token the settings give
    sent,              \* how many ordinary messages each user has sent
    line_ret,          \* the webhook request just handled, its status and
                       \* the calls it made; NoWebhook once answered
    reply_ret          \* a call of reply_message: its arguments, then also
                       \* what it sent

VARIABLES
    list_objects,      \* the list objects that conversations and the calls
                       \* in flight hold, by identity
    refs,              \* LineHandler.conversations: user -> list object
    tasks,             \* the calls of process_text_message so far: the
                       \* locals of each and where it stands
    forgotten,         \* per user: the messages that were stored when the
                       \* user's /clear was handled
    race               \* an upload_document and a delete_document of one
                       \* filename in flight: where each stands

ragVars == << collection, files, ret >>

flightVars == << list_objects, refs, tasks, forgotten, race >>

lineVars ==
    << conversations, use_rag, default_provider, line_settings, sent,
       line_ret, reply_ret >>

singletonVars ==
    << VectorStore_instance, vector_stores, created, clients, rag_services,
       seen >>

nonRagVars == << singletonVars, config, lineVars, flightVars >>

nonSingletonVars == << ragVars, config, lineVars, flightVars >>

nonLineVars == << ragVars, singletonVars, config, flightVars >>

vars == << ragVars, nonRagVars >>

Filenames ==
    { << "a", ".", "t", "x", "t" >>,
      << "b", ".", "P", "D", "F" >>,
      << "d", ".", "e", "x", "e" >>,
      << ".", "t", "x", "t" >> }

\* Payloads: empty, shorter than a chunk, of exactly max_file_size bytes (two
\* chunks), not UTF-8, and of max_file_size + 1 bytes.
Payloads ==
    { << >>,
      << "x", "y" >>,
      << "a", "b", " ", "c", "d" >>,
      << BadByte >>,
      << "x", "x", "x", "x", "x", "x" >> }

\* What the PDF / DOCX parser can make of an upload.
ParsedOutcomes(filename) ==
    IF lower(path_suffix(filename))
          \in { <<".", "p", "d", "f">>, <<".", "d", "o", "c", "x">> }
    THEN { [corrupt |-> TRUE,  parts |-> << >>],
           [corrupt |-> FALSE, parts |-> << >>],
           [corrupt |-> FALSE,
            parts   |-> << << "a", "b" >>, << >>, << "c", "d" >> >>] }
    ELSE { [corrupt |-> FALSE, parts |-> << >>] }

\* How a call into Chroma with a batch of n documents can end: it returns,
\* the embedding model raises, or the storage engine raises with k of the
\* records persisted.
StoreOutcomes(n) ==
    { << "ok", 0 >>, << "embed_fail", 0 >> }
        \cup { << "store_fail", k >> : k \in 0..n }

QueryTexts == { << "x", "y" >>, << "c", "d" >> }

\* ret: the request (op and its arguments), what the collaborators did
\* during it (parsed, outcome), and the result: the error raised or the
\* value returned.
NoRequest ==
    [ op |-> "none", filename |-> << >>, content |-> << >>, query |-> << >>,
      top_k |-> 0, parsed |-> [corrupt |-> FALSE, parts |-> << >>],
      outcome |-> << "ok", 0 >>,
      error |-> None, value |-> << >>, step |-> None, started |-> << >>,
      repeat |-> FALSE ]

\* Nothing was constructed yet: the services are created on first use.
NotConstructed ==
    /\ VectorStore_instance = NoObject
    /\ vector_stores = << >>
    /\ created = [ embeddings |-> 0, chroma |-> 0 ]
    /\ clients = << >>
    /\ rag_services = [ api |-> NoObject, line |-> NoObject ]
    /\ seen = [ via |-> "none", value |-> {} ]

\* Both services were constructed, without a failure.
Constructed ==
    /\ VectorStore_instance = 1
    /\ vector_stores = << [ initialized |-> TRUE, embeddings |-> 1,
                            vector_store |-> 1 ] >>
    /\ created = [ embeddings |-> 1, chroma |-> 1 ]
    /\ clients = << {} >>
    /\ rag_services = [ api |-> 1, line |-> 1 ]
    /\ seen = [ via |-> "none", value |-> {} ]

Users == { "p", "q" }

NoWebhook ==
    [ signature |-> "none", events |-> << >>, oracle |-> << >>,
      status |-> 0, body_read |-> FALSE, calls |-> << >> ]

NoReply ==
    [ state |-> "none", messaging_api |-> FALSE, text |-> << >>,
      error |-> None, calls |-> << >> ]

\* No upload and no delete are in flight.  upload holds the locals of the
\* call of upload_document and delete those of delete_document; `removed`
\* notes whether delete_document's os.remove ran, and `interleaved` whether
\* the handlers run in parallel or on one event loop.
NoRace ==
    [ filename |-> << >>, interleaved |-> FALSE,
      upload |-> [ pc |-> "none", content |-> << >>, chunks |-> << >>,
                   error |-> None, value |-> << >> ],
      delete |-> [ pc |-> "none", deleted |-> FALSE, removed |-> FALSE,
                   error |-> None ] ]

\* No call is in flight.
NothingInFlight ==
    /\ list_objects = << >>
    /\ refs = << >>
    /\ tasks = << >>
    /\ forgotten = [ u \in Users |-> {} ]
    /\ race = NoRace

\* LineHandler.__init__ with LINE configured; no message was handled yet.
LineConstructed ==
    /\ conversations = << >>
    /\ use_rag = TRUE
    /\ default_provider = << "o", "l", "l", "a", "m", "a" >>
    /\ line_settings = [ line_channel_secret |-> TRUE,
                         line_channel_access_token |-> TRUE ]
    /\ sent = [ u \in Users |-> 0 ]
    /\ line_ret = NoWebhook
    /\ reply_ret = NoReply

Init ==
    /\ collection = EmptyBag
    /\ files = << >>
    /\ ret = NoRequest
    /\ Constructed
    /\ config = DeployedSettings
    /\ NothingInFlight
    /\ LineConstructed

\* POST /rag/upload
UploadDocument ==
    /\ ret = NoRequest
    /\ \E filename \in Filenames, content \in Payloads :
         \E parsed \in ParsedOutcomes(filename) :
           \E o \in StoreOutcomes(
                      Len(process_file(content, filename, parsed).chunks)) :
             LET r == upload_document(collection, files, filename, content,
                                      parsed, o[1], o[2])
             IN  /\ BagCardinality(r.collection) <= MaxChunks
                 /\ collection' = r.collection
                 /\ files' = r.files
                 /\ ret' = [ NoRequest EXCEPT !.op = "upload",
                               !.filename = filename, !.content = content,
                               !.parsed = parsed, !.outcome = o,
                               !.error = r.error, !.value = r.value,
                               !.step = r.step, !.started = r.started ]
    /\ UNCHANGED nonRagVars

\* POST /rag/query
Query ==
    /\ ret = NoRequest
    /\ \E q \in QueryTexts, k \in 1..MaxK :
         LET r == query_request(collection, files, q, k)
         IN  /\ collection' = r.collection
             /\ files' = r.files
             /\ ret' = [ NoRequest EXCEPT !.op = "query", !.query = q,
                           !.top_k = k, !.value = r.value ]
    /\ UNCHANGED nonRagVars

\* POST /rag/query once more, with the query and top_k of the query just
\* answered.
QueryRepeated ==
    /\ ret.op = "query" /\ ~ ret.repeat
    /\ LET r == query_request(collection, files, ret.query, ret.top_k)
       IN  /\ collection' = r.collection
           /\ files' = r.files
           /\ ret' = [ ret EXCEPT !.value = r.value, !.repeat = TRUE ]
    /\ UNCHANGED nonRagVars

\* get_context_for_query, as the chat layer calls it
GetContextForQuery ==
    /\ ret = NoRequest
    /\ \E q \in QueryTexts, k \in 1..MaxK :
         \E order \in Enumerations({ r.source :
                                       r \in Range(query(collection, q, k)) }) :
           ret' = [ NoRequest EXCEPT !.op = "context", !.query = q,
                      !.top_k = k,
                      !.value = get_context_for_query(collection, q, k, order) ]
    /\ UNCHANGED << collection, files >>
    /\ UNCHANGED nonRagVars

\* DELETE /rag/documents/{filename}
DeleteDocument ==
    /\ ret = NoRequest
    /\ \E filename \in Filenames, store_fails \in BOOLEAN :
         LET r == delete_document(collection, files, filename, store_fails)
         IN  /\ collection' = r.collection
             /\ files' = r.files
             /\ ret' = [ NoRequest EXCEPT !.op = "delete",
                           !.filename = filename,
                           !.outcome = IF store_fails
                                       THEN << "store_fail", 0 >>
                                       ELSE << "ok", 0 >>,
                           !.error = r.error, !.value = r.value ]
    /\ UNCHANGED nonRagVars

\* RAGService.list_documents
ListDocuments ==
    /\ ret = NoRequest
    /\ \E order \in Enumerations(get_all_sources(collection)) :
         ret' = [ NoRequest EXCEPT !.op = "list", !.value = order ]
    /\ UNCHANGED << collection, files >>
    /\ UNCHANGED nonRagVars

\* GET /rag/documents
GetStats ==
    /\ ret = NoRequest
    /\ \E order \in Enumerations(get_all_sources(collection)) :
         ret' = [ NoRequest EXCEPT !.op = "stats",
                    !.value = get_stats(collection, order) ]
    /\ UNCHANGED << collection, files >>
    /\ UNCHANGED nonRagVars

\* The response (or the error) of the request just handled goes out; the
\* service takes the next request.
Respond ==
    /\ ret # NoRequest
    /\ ret' = NoRequest
    /\ UNCHANGED << collection, files >>
    /\ UNCHANGED nonRagVars

Next ==
    \/ Respond
    \/ UploadDocument
    \/ Query
    \/ QueryRepeated
    \/ GetContextForQuery
    \/ DeleteDocument
    \/ ListDocuments
    \/ GetStats

Spec == Init /\ [][Next]_vars

---------------------------------------------------------------------------
(* The chunker under every configuration: one text file is uploaded to a   *)
(* service that holds nothing yet.                                         *)

\* The texts are those of at most MaxTextLen characters.
MaxTextLen == 5

\* chunk_size 2..4 with every smaller chunk_overlap; max_file_size admits
\* every text.
Configs ==
    { [ chunk_size |-> sz, chunk_overlap |-> ov, max_file_size |-> MaxTextLen ] :
        sz \in {2, 3, 4}, ov \in {0, 1, 2, 3} } \ { c \in
    { [ chunk_size |-> sz, chunk_overlap |-> ov, max_file_size |-> MaxTextLen ] :
        sz \in {2, 3, 4}, ov \in {0, 1, 2, 3} } :
            c.chunk_overlap >= c.chunk_size }

Letters == << "a", "b", "c", "d", "e", "f", "g", "h" >>

\* The text t with the letter of its position for every "x".  The splitter
\* looks at a character only to tell whether it is a separator or white
\* space, so it cuts t and Marked(t) at the same places; in Marked(t) no
\* letter occurs twice.
Marked(t) ==
    [ i \in 1..Len(t) |-> IF t[i] = "x" THEN Letters[i] ELSE t[i] ]

\* Texts of "x", space and newline, and the same texts marked.
Texts ==
    LET plain == UNION { [ 1..n -> { "x", " ", NL } ] : n \in 0..MaxTextLen }
    IN  plain \cup { Marked(t) : t \in plain }

TextFile == << "a", ".", "t", "x", "t" >>

InitChunking ==
    /\ collection = EmptyBag
    /\ files = << >>
    /\ ret = NoRequest
    /\ Constructed
    /\ config \in Configs
    /\ NothingInFlight
    /\ LineConstructed

\* POST /rag/upload of a text file, the store taking the chunks
UploadText ==
    /\ ret = NoRequest
    /\ collection = EmptyBag /\ files = << >>
    /\ \E content \in Texts :
         LET parsed == [corrupt |-> FALSE, parts |-> << >>]
             r == upload_document(collection, files, TextFile, content,
                                  parsed, "ok", 0)
         IN  /\ collection' = r.collection
             /\ files' = r.files
             /\ ret' = [ NoRequest EXCEPT !.op = "upload",
                           !.filename = TextFile, !.content = content,
                           !.parsed = parsed,
                           !.error = r.error, !.value = r.value,
                           !.step = r.step, !.started = r.started ]
    /\ UNCHANGED nonRagVars

NextChunking ==
    \/ UploadText
    \/ Respond

SpecChunking == InitChunking /\ [][NextChunking]_vars

---------------------------------------------------------------------------
(* The LINE webhook and the handler's conversations.                       *)

\* A user sends at most MaxSent ordinary messages.
MaxSent == 11

\* A webhook request carries at most MaxEvents events.
MaxEvents == 2

\* The n-th ordinary message of user u: the user and a letter for n.
MessageChars ==
    << "a", "b", "c", "d", "e", "f", "g", "h", "i", "j", "k", "l", "m",
       "n" >>

NextText(u, n) == << u, MessageChars[n] >>

\* The exchange of user u's n-th answered message: the message, then the
\* response to it.
Exchange(u, n) ==
    << [ role |-> "user", content |-> NextText(u, n) ],
       [ role |-> "assistant", content |-> llm_generate(NextText(u, n)) ] >>

\* The exchanges of the messages first..last of u, in the order of arrival.
RECURSIVE Exchanges(_, _, _)
Exchanges(u, first, last) ==
    IF first > last THEN << >>
    ELSE Exchange(u, first) \o Exchanges(u, first + 1, last)

TextEvent(u, text) ==
    [ type |-> "message", message_type |-> "text", user_id |-> u,
      text |-> text ]

\* An ordinary message; number_events gives it its text.
SayEvent(u) == TextEvent(u, << >>)

ImageEvent(u) ==
    [ type |-> "message", message_type |-> "image", user_id |-> u,
      text |-> << >> ]

FollowEvent(u) ==
    [ type |-> "follow", message_type |-> "none", user_id |-> u,
      text |-> << >> ]

ClearCommand == << "/", "c", "l", "e", "a", "r" >>

RagOffCommand == << "/", "r", "a", "g", " ", "o", "f", "f" >>

DocsCommand == << "/", "d", "o", "c", "s" >>

\* The events with the ordinary messages numbered on from counts, and the
\* counts after them.  A message that gets no answer because the context
\* lookup or the LLM raises is sent again: the next message of the user has
\* the same text.
RECURSIVE number_events(_, _, _)
number_events(events, oracle, counts) ==
    IF events = << >> THEN [ events |-> << >>, sent |-> counts ]
    ELSE LET e    == Head(events)
             say  == e = SayEvent(e.user_id)
             now  == IF say /\ Head(oracle) \notin { "rag_raises",
                                                      "llm_raises" }
                     THEN [ counts EXCEPT ![e.user_id] = @ + 1 ]
                     ELSE counts
             rest == number_events(Tail(events), Tail(oracle), now)
         IN  [ events |-> << IF say
                             THEN TextEvent(e.user_id,
                                            NextText(e.user_id,
                                                     counts[e.user_id] + 1))
                             ELSE e >> \o rest.events,
               sent   |-> rest.sent ]

\* How the collaborators can end while an event is processed: one of
\* `outcomes` for an ordinary message.
OutcomesFor(e, outcomes) ==
    IF e = SayEvent(e.user_id) THEN outcomes ELSE { "ok" }

Oracles(events, outcomes) ==
    { o \in [ 1..Len(events) -> outcomes \cup { "ok" } ] :
        \A i \in 1..Len(events) : o[i] \in OutcomesFor(events[i], outcomes) }

\* A webhook request with one of the event lists `lists` and one of the
\* signatures `signatures` is handled, the collaborators ending in one of
\* `outcomes`.
LineWebhook(lists, signatures, outcomes) ==
    /\ line_ret = NoWebhook
    /\ \E templates \in lists, signature \in signatures :
         \E missing_is_invalid \in
                (IF signature = "missing" THEN BOOLEAN ELSE { FALSE }) :
           \E oracle \in Oracles(templates, outcomes) :
             \E docs \in Enumerations(get_all_sources(collection)) :
               \E numbered \in { number_events(templates, oracle, sent) } :
               \E r \in { line_webhook([ conversations |-> conversations,
                                         use_rag |-> use_rag,
                                         default_provider |->
                                             default_provider ],
                                       collection, line_settings, signature,
                                       missing_is_invalid, numbered.events,
                                       oracle, docs) } :
                   /\ \A u \in Users : numbered.sent[u] <= MaxSent
                   /\ conversations' = r.handler.conversations
                   /\ use_rag' = r.handler.use_rag
                   /\ default_provider' = r.handler.default_provider
                   /\ sent' = numbered.sent
                   /\ line_ret' = [ signature |-> signature,
                                    events    |-> numbered.events,
                                    oracle    |-> oracle,
                                    status    |-> r.status,
                                    body_read |-> r.body_read,
                                    calls     |-> r.calls ]
    /\ UNCHANGED << line_settings, reply_ret, nonLineVars >>

\* The response to the webhook request goes out.
LineRespond ==
    /\ line_ret # NoWebhook
    /\ line_ret' = NoWebhook
    /\ UNCHANGED << conversations, use_rag, default_provider, line_settings,
                    sent, reply_ret, nonLineVars >>

\* One message at a time: validly signed requests with one event, an
\* ordinary message or /clear; the LLM answers or raises.
LineMessage ==
    LineWebhook({ << e >> : e \in { SayEvent(u) : u \in Users }
                                    \cup { TextEvent(u, ClearCommand) :
                                             u \in Users } },
                { "valid" }, { "ok", "llm_raises" })

NextHistory ==
    \/ LineMessage
    \/ LineRespond

SpecHistory == Init /\ [][NextHistory]_vars

\* The events of the requests explored below.
WebhookEvents ==
    { SayEvent("p"), SayEvent("q"), TextEvent("p", ClearCommand),
      TextEvent("q", RagOffCommand), TextEvent("q", DocsCommand),
      ImageEvent("p"), FollowEvent("q") }

EventLists ==
    UNION { [ 1..n -> WebhookEvents ] : n \in 0..MaxEvents }

\* A chunk of an uploaded text file a.txt with the bytes "xy".
StoredChunk ==
    [ page_content |-> << "x", "y" >>,
      source       |-> << "a", ".", "t", "x", "t" >>,
      file_path    |-> file_path_of(<< "a", ".", "t", "x", "t" >>),
      chunk_index  |-> 0,
      total_chunks |-> 1 ]

\* The handler before its first message, or after a first exchange with p.
HandlerAtStart ==
    \/ conversations = << >> /\ sent = [ u \in Users |-> 0 ]
    \/ /\ conversations =
            [ u \in { "p" } |->
                << [ role |-> "user", content |-> NextText("p", 1) ],
                   [ role |-> "assistant",
                     content |-> llm_generate(NextText("p", 1)) ] >> ]
       /\ sent = [ u \in Users |-> IF u = "p" THEN 1 ELSE 0 ]

\* The handler in any configuration of LINE, at its start; the collection
\* empty or holding a.txt.
InitWebhook ==
    /\ \/ collection = EmptyBag /\ files = << >>
       \/ /\ collection = SetToBag({ StoredChunk })
          /\ files = [ f \in { StoredChunk.file_path } |-> << "x", "y" >> ]
    /\ ret = NoRequest
    /\ Constructed
    /\ config = DeployedSettings
    /\ NothingInFlight
    /\ use_rag = TRUE
    /\ default_provider = << "o", "l", "l", "a", "m", "a" >>
    /\ line_settings \in [ line_channel_secret : BOOLEAN,
                            line_channel_access_token : BOOLEAN ]
    /\ HandlerAtStart
    /\ line_ret = NoWebhook
    /\ reply_ret = NoReply

\* A webhook request to a handler in the state it started in.
LineWebhookAny ==
    /\ use_rag
    /\ HandlerAtStart
    /\ LineWebhook(EventLists, { "valid", "invalid", "missing" },
                   { "ok", "rag_raises", "llm_raises", "reply_raises" })

NextWebhook ==
    \/ LineWebhookAny
    \/ LineRespond

SpecWebhook == InitWebhook /\ [][NextWebhook]_vars

---------------------------------------------------------------------------
(* The commands: requests of one event, a command or an ordinary message,  *)
(* to a handler that was sent at most MaxSaid ordinary messages by a user. *)

MaxSaid == 2

HelpCommand == << "/", "h", "e", "l", "p" >>

RagCommand == << "/", "r", "a", "g" >>

RagOnCommand == << "/", "r", "a", "g", " ", "o", "n" >>

RagOtherCommand == << "/", "r", "a", "g", " ", "x" >>

\* /provider, written with a capital.
ProviderCommand == << "/", "P", "r", "o", "v", "i", "d", "e", "r" >>

ProviderGeminiCommand ==
    << "/", "p", "r", "o", "v", "i", "d", "e", "r", " ",
       "g", "e", "m", "i", "n", "i" >>

ProviderOtherCommand ==
    << "/", "p", "r", "o", "v", "i", "d", "e", "r", " ", "x" >>

UnknownCommand == << "/", "x" >>

SlashCommand == << "/" >>

\* The commands that only give an answer.
AnswerCommands ==
    { HelpCommand, DocsCommand, RagCommand, RagOtherCommand, ProviderCommand,
      ProviderOtherCommand, UnknownCommand, SlashCommand }

Commands ==
    AnswerCommands
      \cup { ClearCommand, RagOnCommand, RagOffCommand, ProviderGeminiCommand }

InitCommands ==
    /\ \/ collection = EmptyBag /\ files = << >>
       \/ /\ collection = SetToBag({ StoredChunk })
          /\ files = [ f \in { StoredChunk.file_path } |-> << "x", "y" >> ]
    /\ ret = NoRequest
    /\ Constructed
    /\ config = DeployedSettings
    /\ NothingInFlight
    /\ LineConstructed

\* A validly signed request with one event: a command or an ordinary
\* message of a user, which the collaborators answer.
LineCommand ==
    /\ LineWebhook({ << e >> :
                       e \in { SayEvent(u) : u \in Users }
                               \cup { TextEvent(u, c) :
                                        u \in Users, c \in Commands } },
                   { "valid" }, { "ok" })
    /\ \A u \in Users : sent'[u] <= MaxSaid

NextCommands ==
    \/ LineCommand
    \/ LineRespond

SpecCommands == InitCommands /\ [][NextCommands]_vars

---------------------------------------------------------------------------
(* reply_message on texts around the multiples of the LINE text limit.     *)

\* The texts have up to MaxPieces * LINE_TEXT_LIMIT characters, and a few
\* more.
MaxPieces == 6

ReplyChars == << "a", "b", "c", "d", "e", "f", "g" >>

\* A text of n characters that does not repeat itself every
\* LINE_TEXT_LIMIT characters.
ReplyText(n) == [ i \in 1..n |-> ReplyChars[(i % 7) + 1] ]

ReplyLengths ==
    { 0, 1, 2 } \cup
    { k * LINE_TEXT_LIMIT + d : k \in 1..MaxPieces, d \in { -2, -1, 0, 1, 2 } }

InitReply ==
    /\ collection = EmptyBag
    /\ files = << >>
    /\ ret = NoRequest
    /\ Constructed
    /\ config = DeployedSettings
    /\ NothingInFlight
    /\ conversations = << >>
    /\ use_rag = TRUE
    /\ default_provider = << "o", "l", "l", "a", "m", "a" >>
    /\ line_settings \in [ line_channel_secret : { TRUE },
                            line_channel_access_token : BOOLEAN ]
    /\ sent = [ u \in Users |-> 0 ]
    /\ line_ret = NoWebhook
    /\ \E n \in ReplyLengths :
         reply_ret = [ NoReply EXCEPT !.state = "called",
                         !.messaging_api =
                             line_settings.line_channel_access_token,
                         !.text = ReplyText(n) ]

\* LineHandler.reply_message(reply_token, text)
ReplyMessage ==
    /\ reply_ret.state = "called"
    /\ \E outcome \in { "ok", "reply_raises" } :
         LET r == reply_message(reply_ret.messaging_api, reply_ret.text,
                                outcome)
         IN  reply_ret' = [ reply_ret EXCEPT !.state = "returned",
                              !.error = r.error, !.calls = r.calls ]
    /\ UNCHANGED << conversations, use_rag, default_provider, line_settings,
                    sent, line_ret, nonLineVars >>

NextReply == ReplyMessage

SpecReply == InitReply /\ [][NextReply]_vars

---------------------------------------------------------------------------
(* The construction of the services: routes.get_rag_service,               *)
(* routes.get_line_handler -> LineHandler.__init__ -> RAGService().  Here   *)
(* a collection is the set of the sources it holds.                        *)

\* No more than MaxConstructions embedding models are constructed: the
\* constructions that fail are retried at most so often.
MaxConstructions == 3

InitOutcomes == { "ok", "embeddings_raise", "chroma_raises" }

SharedSources ==
    { << "a", ".", "t", "x", "t" >>, << "b", ".", "P", "D", "F" >> }

\* The collection the service `who` reads and writes:
\* self.vector_store.vector_store._collection.
collection_of(who) ==
    clients[vector_stores[rag_services[who]].vector_store]

\* The first use of a service constructs it; a constructor that raised
\* leaves the module global None and the next request constructs again.
ConstructService(who) ==
    /\ rag_services[who] = NoObject
    /\ created.embeddings < MaxConstructions
    /\ \E outcome \in InitOutcomes :
         LET r == RAGService_init(VectorStore_instance, vector_stores,
                                  created, clients, outcome)
         IN  /\ VectorStore_instance' = r.instance
             /\ vector_stores' = r.objects
             /\ created' = r.created
             /\ clients' = r.clients
             /\ rag_services' = [ rag_services EXCEPT ![who] = r.service ]
    /\ UNCHANGED << seen, nonSingletonVars >>

\* routes.get_rag_service
GetRagService == ConstructService("api")

\* routes.get_line_handler
GetLineHandler == ConstructService("line")

\* upload_document through the API's service: vector_store.add_documents
SharedUpload ==
    /\ rag_services.api # NoObject
    /\ \E f \in SharedSources :
         clients' = [ clients EXCEPT
                        ![vector_stores[rag_services.api].vector_store]
                            = @ \cup {f} ]
    /\ UNCHANGED << VectorStore_instance, vector_stores, created,
                    rag_services, seen, nonSingletonVars >>

\* delete_document through the API's service: vector_store.delete_by_source
SharedDelete ==
    /\ rag_services.api # NoObject
    /\ \E f \in SharedSources :
         clients' = [ clients EXCEPT
                        ![vector_stores[rag_services.api].vector_store]
                            = @ \ {f} ]
    /\ UNCHANGED << VectorStore_instance, vector_stores, created,
                    rag_services, seen, nonSingletonVars >>

\* list_documents through either service (GET /rag/documents, /docs)
SharedList ==
    /\ \E who \in { "api", "line" } :
         /\ rag_services[who] # NoObject
         /\ seen' = [ via |-> who, value |-> collection_of(who) ]
    /\ UNCHANGED << VectorStore_instance, vector_stores, created, clients,
                    rag_services, nonSingletonVars >>

InitSingleton ==
    /\ collection = EmptyBag
    /\ files = << >>
    /\ ret = NoRequest
    /\ NotConstructed
    /\ config = DeployedSettings
    /\ NothingInFlight
    /\ LineConstructed

NextSingleton ==
    \/ GetRagService
    \/ GetLineHandler
    \/ SharedUpload
    \/ SharedDelete
    \/ SharedList

SpecSingleton == InitSingleton /\ [][NextSingleton]_vars

---------------------------------------------------------------------------
(* Calls of process_text_message in flight.  A call runs to the await of   *)
(* the context lookup and the LLM, where other calls of the handler run,   *)
(* and goes on when the response is there.  The lists are objects: the     *)
(* list a call fetched stays the one it appends to, whatever the dict      *)
(* holds by then.                                                          *)

MaxTasks == 3

\* history = self.conversations.get(user_id, []): the user's list object,
\* or a new empty list that the dict does not hold.
begin_message(objects, dict, user_id) ==
    IF user_id \in DOMAIN dict
    THEN [ list_objects |-> objects, history |-> dict[user_id] ]
    ELSE [ list_objects |-> Append(objects, << >>),
           history |-> Len(objects) + 1 ]

\* history.append(user), history.append(assistant), in place.
append_exchange(objects, history, user_message, response) ==
    [ objects EXCEPT ![history] =
        @ \o << [ role |-> "user", content |-> user_message ],
                [ role |-> "assistant", content |-> response ] >> ]

\* if len(history) > 20: history = history[-20:], a new list;
\* self.conversations[user_id] = history.
store_history(objects, dict, user_id, history) ==
    IF Len(objects[history]) > MAX_HISTORY
    THEN [ list_objects |-> Append(objects, trim_history(objects[history])),
           refs |-> set_item(dict, user_id, Len(objects) + 1) ]
    ELSE [ list_objects |-> objects,
           refs |-> set_item(dict, user_id, history) ]

\* process_text_message from the LLM's response to the return.
end_message(objects, dict, user_id, user_message, history, response) ==
    store_history(append_exchange(objects, history, user_message, response),
                  dict, user_id, history)

\* self.conversations[user_id] = []: a new empty list.
clear_history(objects, dict, user_id) ==
    [ list_objects |-> Append(objects, << >>),
      refs |-> set_item(dict, user_id, Len(objects) + 1) ]

\* The dict with the lists themselves.
conversations_of(objects, dict) == [ u \in DOMAIN dict |-> objects[dict[u]] ]

\* How many exchanges p has stored at the start: none (no entry in the
\* dict), one, one less than the cap holds, as many as the cap holds.
InitialExchanges ==
    { 0, 1, (MAX_HISTORY \div 2) - 1, MAX_HISTORY \div 2 }

InitTasks ==
    /\ collection = EmptyBag
    /\ files = << >>
    /\ ret = NoRequest
    /\ Constructed
    /\ config = DeployedSettings
    /\ use_rag = TRUE
    /\ default_provider = << "o", "l", "l", "a", "m", "a" >>
    /\ line_settings = [ line_channel_secret |-> TRUE,
                         line_channel_access_token |-> TRUE ]
    /\ line_ret = NoWebhook
    /\ reply_ret = NoReply
    /\ race = NoRace
    /\ tasks = << >>
    /\ forgotten = [ u \in Users |-> {} ]
    /\ \E n \in InitialExchanges :
         /\ sent = [ u \in Users |-> IF u = "p" THEN n ELSE 0 ]
         /\ list_objects = IF n = 0 THEN << >>
                           ELSE << Exchanges("p", 1, n) >>
         /\ refs = IF n = 0 THEN << >> ELSE [ u \in { "p" } |-> 1 ]
         /\ conversations = IF n = 0 THEN << >>
                            ELSE [ u \in { "p" } |-> Exchanges("p", 1, n) ]

\* A message of a user arrives: process_text_message runs up to the await.
BeginMessage ==
    /\ Len(tasks) < MaxTasks
    /\ \E u \in Users :
         \E b \in { begin_message(list_objects, refs, u) } :
           /\ list_objects' = b.list_objects
           /\ sent' = [ sent EXCEPT ![u] = @ + 1 ]
           /\ tasks' = Append(tasks, [ kind |-> "message", user |-> u,
                                       text |-> NextText(u, sent[u] + 1),
                                       history |-> b.history,
                                       pc |-> "awaiting" ])
    /\ UNCHANGED << conversations, refs, forgotten, race, use_rag,
                    default_provider, line_settings, line_ret, reply_ret,
                    ragVars, singletonVars, config >>

\* The LLM's response to a message is there, or the LLM raised.
EndMessage ==
    /\ \E i \in 1..Len(tasks), outcome \in { "ok", "llm_raises" } :
         /\ tasks[i].pc = "awaiting"
         /\ IF outcome = "llm_raises"
            THEN /\ tasks' = [ tasks EXCEPT ![i].pc = "failed" ]
                 /\ UNCHANGED << list_objects, refs, conversations >>
            ELSE \E e \in { end_message(list_objects, refs, tasks[i].user,
                                        tasks[i].text, tasks[i].history,
                                        llm_generate(tasks[i].text)) } :
                   /\ list_objects' = e.list_objects
                   /\ refs' = e.refs
                   /\ conversations'
                        = conversations_of(e.list_objects, e.refs)
                   /\ tasks' = [ tasks EXCEPT ![i].pc = "done" ]
    /\ UNCHANGED << sent, forgotten, race, use_rag, default_provider,
                    line_settings, line_ret, reply_ret, ragVars,
                    singletonVars, config >>

\* /clear of a user is handled: it has no await.
ClearHistory ==
    /\ Len(tasks) < MaxTasks
    /\ \E u \in Users :
         \E c \in { clear_history(list_objects, refs, u) } :
           /\ list_objects' = c.list_objects
           /\ refs' = c.refs
           /\ conversations' = conversations_of(c.list_objects, c.refs)
           /\ forgotten' =
                [ forgotten EXCEPT ![u] =
                    @ \cup { m.content :
                               m \in Range(IF u \in DOMAIN conversations
                                           THEN conversations[u]
                                           ELSE << >>) } ]
           /\ tasks' = Append(tasks, [ kind |-> "clear", user |-> u,
                                       text |-> ClearCommand,
                                       history |-> c.refs[u],
                                       pc |-> "done" ])
    /\ UNCHANGED << sent, race, use_rag, default_provider, line_settings,
                    line_ret, reply_ret, ragVars, singletonVars, config >>

NextTasks ==
    \/ BeginMessage
    \/ EndMessage
    \/ ClearHistory

SpecTasks == InitTasks /\ [][NextTasks]_vars

---------------------------------------------------------------------------
(* upload_document and delete_document of one filename in flight at the    *)
(* same time.  A step is what a call does from one await of the source to  *)
(* the next; the except block of upload_document runs with the step that   *)
(* raised.  Nothing in the pipeline locks.  When the handlers run in       *)
(* parallel (race.interleaved: several workers on one upload directory and *)
(* one Chroma directory), the steps of one call can run between two steps  *)
(* of the other.  On the one event loop of uvicorn.run a call goes on      *)
(* until it awaits something that is not ready: process_file,              *)
(* add_documents and delete_by_source have no such await in them, so only  *)
(* await file.read() lets the other call run.                              *)

RaceFilenames ==
    { << "a", ".", "t", "x", "t" >>, << "b", ".", "P", "D", "F" >> }

\* The service before the two calls: it holds nothing, or f was uploaded
\* to it before and the upload returned.
InitRace ==
    /\ ret = NoRequest
    /\ Constructed
    /\ config = DeployedSettings
    /\ LineConstructed
    /\ list_objects = << >>
    /\ refs = << >>
    /\ tasks = << >>
    /\ forgotten = [ u \in Users |-> {} ]
    /\ \E f \in RaceFilenames :
         /\ \E parallel \in BOOLEAN :
              race = [ NoRace EXCEPT !.filename = f,
                                     !.interleaved = parallel ]
         /\ \/ collection = EmptyBag /\ files = << >>
            \/ \E content \in Payloads, parsed \in ParsedOutcomes(f) :
                 \E r \in { upload_document(EmptyBag, << >>, f, content,
                                            parsed, "ok", 0) } :
                   /\ r.error = None
                   /\ collection = r.collection
                   /\ files = r.files

\* upload_document, steps (a) and (b): is_supported, await file.read(), the
\* size check.
upload_read(u, filename, content) ==
    IF ~ is_supported(filename)
    THEN [ u EXCEPT !.pc = "raised", !.error = "UnsupportedFormat" ]
    ELSE IF too_large(content)
    THEN [ u EXCEPT !.pc = "raised", !.error = "FileTooLarge" ]
    ELSE [ u EXCEPT !.pc = "read", !.content = content ]

\* What step (d) leaves: the chunks, or the error after the except block
\* removed the file.
process_result(pf, u, fs, filename) ==
    IF pf.error # None
    THEN [ files |-> remove_file(fs, file_path_of(filename)),
           upload |-> [ u EXCEPT !.pc = "raised", !.error = pf.error ] ]
    ELSE [ files |-> fs,
           upload |-> [ u EXCEPT !.pc = "processed", !.chunks = pf.chunks ] ]

\* What step (e) leaves: return filename, num_chunks, or the error after
\* the except block removed the file.
add_result(added, u, fs, filename) ==
    IF added.error # None
    THEN [ collection |-> added.collection,
           files |-> remove_file(fs, file_path_of(filename)),
           upload |-> [ u EXCEPT !.pc = "raised", !.error = added.error ] ]
    ELSE [ collection |-> added.collection, files |-> fs,
           upload |-> [ u EXCEPT !.pc = "returned",
                                 !.value = << filename, added.value >> ] ]

\* Step (d): process_file opens the file at file_path; open() raises when
\* no file is there.  On an error the except block removes the file.
upload_process(u, fs, filename, parsed) ==
    IF file_path_of(filename) \notin DOMAIN fs
    THEN [ files |-> fs,
           upload |-> [ u EXCEPT !.pc = "raised",
                                 !.error = "FileNotFoundError" ] ]
    ELSE process_result(process_file(fs[file_path_of(filename)], filename,
                                     parsed), u, fs, filename)

\* Step (e): add_documents, and the return or the except block.
upload_add(u, coll, fs, filename, outcome, n) ==
    add_result(add_documents(coll, u.chunks, outcome, n), u, fs, filename)

\* The upload can take a step: the delete is not between its two steps,
\* or the handlers run in parallel.
upload_may_run(r) == r.interleaved \/ r.delete.pc # "indexed"

\* The delete can take a step: the upload is at no step after its read,
\* or the handlers run in parallel.
delete_may_run(r) ==
    r.interleaved \/ r.upload.pc \notin { "written", "processed" }

UploadRead ==
    /\ race.upload.pc = "none"
    /\ upload_may_run(race)
    /\ \E content \in Payloads :
         race' = [ race EXCEPT
                     !.upload = upload_read(@, race.filename, content) ]
    /\ UNCHANGED << collection, files, ret, list_objects, refs, tasks,
                    forgotten, singletonVars, config, lineVars >>

\* Step (c): open(file_path, "wb").write(content)
UploadWrite ==
    /\ race.upload.pc = "read"
    /\ upload_may_run(race)
    /\ files' = write_file(files, file_path_of(race.filename),
                           race.upload.content)
    /\ race' = [ race EXCEPT !.upload.pc = "written" ]
    /\ UNCHANGED << collection, ret, list_objects, refs, tasks, forgotten,
                    singletonVars, config, lineVars >>

UploadProcess ==
    /\ race.upload.pc = "written"
    /\ upload_may_run(race)
    /\ \E parsed \in ParsedOutcomes(race.filename) :
         \E r \in { upload_process(race.upload, files, race.filename,
                                   parsed) } :
           /\ files' = r.files
           /\ race' = [ race EXCEPT !.upload = r.upload ]
    /\ UNCHANGED << collection, ret, list_objects, refs, tasks, forgotten,
                    singletonVars, config, lineVars >>

UploadAdd ==
    /\ race.upload.pc = "processed"
    /\ upload_may_run(race)
    /\ \E o \in StoreOutcomes(Len(race.upload.chunks)) :
         \E r \in { upload_add(race.upload, collection, files,
                               race.filename, o[1], o[2]) } :
           /\ collection' = r.collection
           /\ files' = r.files
           /\ race' = [ race EXCEPT !.upload = r.upload ]
    /\ UNCHANGED << ret, list_objects, refs, tasks, forgotten,
                    singletonVars, config, lineVars >>

\* delete_document: deleted = await self.vector_store.delete_by_source(...)
DeleteIndex ==
    /\ race.delete.pc = "none"
    /\ delete_may_run(race)
    /\ \E store_fails \in BOOLEAN :
         IF store_fails
         THEN /\ race' = [ race EXCEPT !.delete.pc = "raised",
                                       !.delete.error = "StorageFailure" ]
              /\ UNCHANGED collection
         ELSE \E r \in { delete_by_source(collection, race.filename) } :
                /\ collection' = r.collection
                /\ race' = [ race EXCEPT !.delete.pc = "indexed",
                                         !.delete.deleted = r.value ]
    /\ UNCHANGED << files, ret, list_objects, refs, tasks, forgotten,
                    singletonVars, config, lineVars >>

\* delete_document: if os.path.exists(file_path): os.remove(file_path);
\* return deleted
DeleteFile ==
    /\ race.delete.pc = "indexed"
    /\ delete_may_run(race)
    /\ files' = remove_file(files, file_path_of(race.filename))
    /\ race' = [ race EXCEPT
                   !.delete.pc = "returned",
                   !.delete.removed =
                       file_path_of(race.filename) \in DOMAIN files ]
    /\ UNCHANGED << collection, ret, list_objects, refs, tasks, forgotten,
                    singletonVars, config, lineVars >>

NextRace ==
    \/ UploadRead
    \/ UploadWrite
    \/ UploadProcess
    \/ UploadAdd
    \/ DeleteIndex
    \/ DeleteFile

SpecRace == InitRace /\ [][NextRace]_vars

---------------------------------------------------------------------------
(* Properties.                                                             *)

\* No record of the collection has source f.
Absent(f) == \A c \in BagToSet(collection) : c.source # f

\* The response r names f: as the source of a query result, in a label of
\* the context string or in its source list, in the document list or the
\* statistics.
Mentions(r, f) ==
    \/ r.op = "query" /\ \E i \in 1..Len(r.value) : r.value[i].source = f
    \/ r.op = "context"
         /\ \/ f \in Range(r.value[2])
            \/ find(r.value[1], << "] (Source: " >> \o f \o << ")", NL >>, 1) # 0
    \/ r.op = "list" /\ f \in Range(r.value)
    \/ r.op = "stats" /\ f \in Range(r.value.documents)

\* C1. Delete completeness: when delete_document(f) has returned, the
\* collection holds no chunk of f; and from a state without chunks of f,
\* every request other than an upload of f leaves it so and its response
\* (query, context, list, stats) does not name f.  Hence nothing names f
\* from a completed delete until f is uploaded again.
C1_DeleteCompleteness ==
    [][ \A f \in Filenames :
          /\ (ret'.op = "delete" /\ ret'.filename = f /\ ret'.error = None)
                => Absent(f)'
          /\ (Absent(f) /\ ~ (ret'.op = "upload" /\ ret'.filename = f))
                => (Absent(f)' /\ ~ Mentions(ret', f)) ]_vars

\* A delete that removed the chunks of its document while other documents
\* stay indexed.
C1_Witness ==
    /\ ret.op = "delete" /\ ret.error = None /\ ret.value = TRUE
    /\ Absent(ret.filename)
    /\ collection # EmptyBag

\* The upload r passed the format and the size gate.
PassedGates(r) ==
    /\ r.op = "upload"
    /\ lower(path_suffix(r.filename)) \in SUPPORTED_EXTENSIONS
    /\ Len(r.content) <= settings.max_file_size

\* Step (d) of the upload r fails: the loader raises.
LoadFails(r) ==
    process_file(r.content, r.filename, r.parsed).error # None

\* Step (e) of the upload r fails: there are chunks and the call into Chroma
\* raises.
UpsertFails(r) ==
    /\ ~ LoadFails(r)
    /\ process_file(r.content, r.filename, r.parsed).chunks # << >>
    /\ r.outcome[1] # "ok"

\* C2. An upload that fails in step (d) or (e) leaves no raw file at its
\* path and raises the error of the failing step: the loader's, the
\* embedding model's or the storage engine's; it returns no value.
C2_FailedUploadRemovesRawFile ==
    (PassedGates(ret) /\ (LoadFails(ret) \/ UpsertFails(ret)))
        => /\ file_path_of(ret.filename) \notin DOMAIN files
           /\ ret.value = << >>
           /\ ret.error = IF LoadFails(ret) THEN "CorruptDocument"
                          ELSE IF ret.outcome[1] = "embed_fail"
                          THEN "EmbeddingFailure"
                          ELSE "StorageFailure"

\* An upload whose upsert the storage engine failed.
C2_Witness ==
    /\ PassedGates(ret) /\ UpsertFails(ret)
    /\ ret.error = "StorageFailure"
    /\ file_path_of(ret.filename) \notin DOMAIN files

\* C3. An upload that fails in step (d) or (e) leaves the collection as it
\* found it.
C3_FailedUploadStoresNothing ==
    [][ (PassedGates(ret') /\ (LoadFails(ret') \/ UpsertFails(ret')))
           => collection' = collection ]_vars

\* C4. An upload under a supported filename with more than max_file_size
\* bytes raises FileTooLarge and changes neither the collection nor the
\* upload directory; one of exactly max_file_size bytes does not raise it.
C4_SizeRejection ==
    [][ (ret'.op = "upload"
           /\ lower(path_suffix(ret'.filename)) \in SUPPORTED_EXTENSIONS)
          => /\ Len(ret'.content) > settings.max_file_size
                  => /\ ret'.error = "FileTooLarge"
                     /\ collection' = collection
                     /\ files' = files
             /\ Len(ret'.content) = settings.max_file_size
                  => ret'.error # "FileTooLarge" ]_vars

\* A rejected upload of max_file_size + 1 bytes.
C4_Witness ==
    /\ ret.op = "upload"
    /\ Len(ret.content) = settings.max_file_size + 1
    /\ ret.error = "FileTooLarge"

\* The extension of a filename: the part of its final component from the
\* last dot on, when that dot is neither the component's first nor its last
\* character; in lower case.
ExtensionOf(filename) ==
    LET name == SubSeq(filename, rfind(filename, "/") + 1, Len(filename))
        dots == { i \in 1..Len(name) : name[i] = "." }
        last == IF dots = {} THEN 0
                ELSE CHOOSE i \in dots : \A j \in dots : j <= i
    IN  IF last <= 1 \/ last = Len(name) THEN << >>
        ELSE [ i \in 1..(Len(name) - last + 1) |->
                 lower_char(name[last + i - 1]) ]

\* C5. An upload whose filename has no supported extension raises
\* UnsupportedFormat, writes no file and leaves the collection alone.
C5_UnsupportedFormatRejection ==
    [][ (ret'.op = "upload"
           /\ ExtensionOf(ret'.filename) \notin SUPPORTED_EXTENSIONS)
          => /\ ret'.error = "UnsupportedFormat"
             /\ files' = files
             /\ collection' = collection ]_vars

\* A rejected upload of d.exe.
C5_Witness ==
    /\ ret.op = "upload"
    /\ ret.filename = << "d", ".", "e", "x", "e" >>
    /\ ret.error = "UnsupportedFormat"

\* The records of bag b with source f number n, their chunk_index values are
\* 0..n-1, each once, and total_chunks is n in all of them.
Contiguous(b, f, n) ==
    LET of_f == { c \in BagToSet(b) : c.source = f }
    IN  /\ \A c \in of_f : c.total_chunks = n /\ b[c] = 1
        /\ \A i \in 0..(n - 1) :
              Cardinality({ c \in of_f : c.chunk_index = i }) = 1
        /\ \A c \in of_f : c.chunk_index \in 0..(n - 1)

\* C6 as stated: after a successful upload of f that made N chunks, the
\* chunks of source f in the collection are numbered 0..N-1, each once, with
\* total_chunks = N.
C6_ContiguousPerSource ==
    (ret.op = "upload" /\ ret.error = None)
        => Contiguous(collection, ret.filename, ret.value[2])

\* C6, amended: the chunks a successful upload of f adds to the collection
\* all have source f and are numbered 0..N-1, each once, with
\* total_chunks = N, N the count the upload returns.
C6_ContiguousAtCreation ==
    [][ (ret'.op = "upload" /\ ret'.error = None)
          => LET added == collection' (-) collection
             IN  /\ \A c \in BagToSet(added) : c.source = ret'.filename
                 /\ BagCardinality(added) = ret'.value[2]
                 /\ Contiguous(added, ret'.filename, ret'.value[2]) ]_vars

\* A second successful upload of a filename, of two chunks, beside the
\* chunks of the first.
C6_Witness ==
    /\ ret.op = "upload" /\ ret.error = None /\ ret.value[2] = 2
    /\ BagCardinality(collection) > 2
    /\ \A c \in BagToSet(collection) : c.source = ret.filename

\* C7. delete_document(f) returns what the store's deletion returns: whether
\* the collection held a chunk of f, so FALSE and no error for a filename
\* that is not indexed; after it the raw file of f is gone.  The store comes
\* first: when it raises, the raw file is as it was.
C7_DeleteDocumentResult ==
    [][ ret'.op = "delete"
          => LET f    == ret'.filename
                 path == file_path_of(f)
             IN  IF ret'.outcome[1] = "ok"
                 THEN /\ ret'.error = None
                      /\ ret'.value = ~ Absent(f)
                      /\ DOMAIN files' = DOMAIN files \ {path}
                      /\ \A p \in DOMAIN files' : files'[p] = files[p]
                 ELSE /\ ret'.error = "StorageFailure"
                      /\ files' = files ]_vars

\* A delete of a filename without chunks: FALSE, no error.
C7_Witness ==
    /\ ret.op = "delete" /\ ret.error = None /\ ret.value = FALSE

\* C8. The store's deletion by source f removes every record of source f
\* and no other record, and returns TRUE exactly when it removed one.
C8_DeleteBySourceFrame ==
    [][ (ret'.op = "delete" /\ ret'.error = None)
          => /\ \A c \in BagToSet(collection) \cup BagToSet(collection') :
                  CopiesIn(c, collection') =
                     IF c.source = ret'.filename THEN 0
                     ELSE CopiesIn(c, collection)
             /\ ret'.value = (\E c \in BagToSet(collection) :
                                 c.source = ret'.filename) ]_vars

\* A deletion that removed records and left those of another source.
C8_Witness ==
    /\ ret.op = "delete" /\ ret.error = None /\ ret.value = TRUE
    /\ \E c \in BagToSet(collection) : c.source # ret.filename

\* C9. A successful upload returns the number of chunks the store took, and
\* they are in the collection when it returns: the collection is the old one
\* plus that many records of the uploaded file.  With no chunks to store the
\* store is not called: the upload returns 0 whatever state the store is in.
C9_UploadCount ==
    [][ PassedGates(ret') /\ ~ LoadFails(ret')
          => LET chunks == process_file(ret'.content, ret'.filename,
                                        ret'.parsed).chunks
                 added  == collection' (-) collection
             IN  /\ ret'.error = None
                   => /\ ret'.value = << ret'.filename, Len(chunks) >>
                      /\ collection' = collection (+) added
                      /\ BagCardinality(added) = ret'.value[2]
                      /\ BagCardinality(collection')
                            = BagCardinality(collection) + ret'.value[2]
                      /\ \A c \in BagToSet(added) : c.source = ret'.filename
                 /\ chunks = << >>
                   => /\ ret'.error = None
                      /\ ret'.value[2] = 0
                      /\ collection' = collection ]_vars

\* A successful upload of two chunks into a collection that held some.
C9_Witness ==
    /\ ret.op = "upload" /\ ret.error = None /\ ret.value[2] = 2
    /\ BagCardinality(collection) > 2

\* C10. When the query finds nothing, get_context_for_query returns the
\* empty context and the empty source list.
C10_EmptyContext ==
    (ret.op = "context" /\ query(collection, ret.query, ret.top_k) = << >>)
        => ret.value = << << >>, << >> >>

\* get_context_for_query on the empty collection.
C10_Witness ==
    /\ ret.op = "context" /\ collection = EmptyBag
    /\ ret.value = << << >>, << >> >>

EnumerationOf(s, S) ==
    /\ Range(s) = S
    /\ \A i, j \in 1..Len(s) : s[i] = s[j] => i = j

\* C12. list_documents returns the distinct sources of the chunks in the
\* collection, each once; get_stats reports the number of chunks in the
\* collection as total_chunks, the same enumeration of sources as documents
\* and its length as total_documents.
C12_ListingAndStats ==
    LET sources == { c.source : c \in BagToSet(collection) }
    IN  /\ ret.op = "list" => EnumerationOf(ret.value, sources)
        /\ ret.op = "stats"
             => /\ ret.value.total_chunks = BagCardinality(collection)
                /\ EnumerationOf(ret.value.documents, sources)
                /\ ret.value.total_documents = Len(ret.value.documents)
                /\ ret.value.total_documents = Cardinality(sources)

\* Statistics of a collection that holds the same chunk twice and chunks of
\* two documents.
C12_Witness ==
    /\ ret.op = "stats"
    /\ ret.value.total_documents = 2
    /\ \E c \in BagToSet(collection) : collection[c] = 2

\* C13. The steps of an upload are begun in the order a, b, c, d, e and a
\* step is begun only when every step before it passed: an unsupported
\* filename ends the upload in step a with UnsupportedFormat, also when the
\* body is too large; the raw file is written (step c) exactly when the
\* format and the size check passed; the store is called (step e) exactly
\* when moreover the loader succeeded; and only an upload that began step c
\* changes the upload directory, only one that began step e the collection.
C13_GateOrder ==
    [][ ret'.op = "upload"
          => LET st          == ret'.started
                 supported   == ExtensionOf(ret'.filename)
                                   \in SUPPORTED_EXTENSIONS
                 fits        == Len(ret'.content) <= settings.max_file_size
                 began(x)    == x \in Range(st)
             IN  /\ st # << >>
                 /\ st = SubSeq(<< "a", "b", "c", "d", "e" >>, 1, Len(st))
                 /\ ~ supported
                      => /\ st = << "a" >>
                         /\ ret'.error = "UnsupportedFormat"
                 /\ (supported /\ ~ fits)
                      => /\ st = << "a", "b" >>
                         /\ ret'.error = "FileTooLarge"
                 /\ began("c") <=> (supported /\ fits)
                 /\ began("d") <=> began("c")
                 /\ began("e") <=> (began("d") /\ ~ LoadFails(ret'))
                 /\ ret'.error # None => ret'.step = st[Len(st)]
                 /\ files' # files => began("c")
                 /\ collection' # collection => began("e") ]_vars

\* An upload that is both unsupported and too large.
C13_Witness ==
    /\ ret.op = "upload"
    /\ ExtensionOf(ret.filename) \notin SUPPORTED_EXTENSIONS
    /\ Len(ret.content) > settings.max_file_size
    /\ ret.started = << "a" >>
    /\ ret.error = "UnsupportedFormat"

\* C14. Every VectorStore() returns the one instance: at most one object is
\* ever allocated, every RAGService that was constructed holds it, and it is
\* initialized.  Once an object is initialized no embedding model and no
\* Chroma client is constructed again and the object keeps its attributes.
\* So the API's and the LINE handler's service read and write the same
\* collection: what one stores or deletes is what the other lists.
C14_Singleton ==
    [][ LET made == { w \in { "api", "line" } : rag_services'[w] # NoObject }
        IN  /\ Len(vector_stores') <= 1
            /\ \A w \in made :
                  /\ rag_services'[w] = VectorStore_instance'
                  /\ vector_stores'[rag_services'[w]].initialized
            /\ (\E o \in 1..Len(vector_stores) : vector_stores[o].initialized)
                  => /\ created' = created
                     /\ vector_stores' = vector_stores
            /\ \A a, b \in made :
                  /\ vector_stores'[rag_services'[a]].vector_store
                        = vector_stores'[rag_services'[b]].vector_store
                  /\ collection_of(a)' = collection_of(b)'
            /\ (seen' # seen /\ "api" \in made)
                  => seen'.value = collection_of("api")' ]_vars

\* The LINE handler's service lists a document that was stored through the
\* API's service, after a construction had failed in Chroma and was retried.
C14_Witness ==
    /\ rag_services.api # NoObject /\ rag_services.line # NoObject
    /\ seen.via = "line" /\ seen.value # {}
    /\ created.embeddings = 2 /\ created.chroma = 1

\* C15. A successful upload of a filename that has chunks in the collection
\* leaves the new bytes at the file's path, keeps every record that was in
\* the collection and adds as many records as it returns; no record leaves
\* the collection except by a delete of its source; and a listing names a
\* source once however many uploads stored chunks of it.
C15_ReuploadDuplicates ==
    [][ /\ (ret'.op = "upload" /\ ret'.error = None
              /\ ~ Absent(ret'.filename))
             => /\ files'[file_path_of(ret'.filename)] = ret'.content
                /\ \A c \in BagToSet(collection) :
                      CopiesIn(c, collection') >= CopiesIn(c, collection)
                /\ BagCardinality(collection')
                      = BagCardinality(collection) + ret'.value[2]
        /\ \A c \in BagToSet(collection) :
              CopiesIn(c, collection') < CopiesIn(c, collection)
                 => (ret'.op = "delete" /\ ret'.filename = c.source)
        /\ ret'.op = "list"
             => \A f \in Filenames :
                   Cardinality({ i \in 1..Len(ret'.value) :
                                   ret'.value[i] = f }) <= 1 ]_vars

\* a.txt was uploaded with "xy" and then again with "ab cd": the chunk of
\* the first upload is in the collection beside the two of the second, and
\* the file holds the second upload's bytes.
C15_Witness ==
    LET f == << "a", ".", "t", "x", "t" >>
    IN  /\ ret.op = "upload" /\ ret.error = None /\ ret.filename = f
        /\ ret.value[2] = 2
        /\ files[file_path_of(f)] = << "a", "b", " ", "c", "d" >>
        /\ \E c \in BagToSet(collection) :
              c.source = f /\ c.page_content = << "x", "y" >>
        /\ BagCardinality(collection) = 3

\* The chunks of source f in the collection, in the order of chunk_index.
ChunksOf(f) ==
    LET of_f == { c \in BagToSet(collection) : c.source = f }
    IN  [ i \in 1..Cardinality(of_f) |->
            (CHOOSE c \in of_f : c.chunk_index = i - 1).page_content ]

\* C16 as stated: uploading a text shorter than chunk_size, the empty text
\* included, returns chunkCount 1.
C16_ShortTextOneChunk ==
    (ret.op = "upload" /\ ret.error = None
       /\ Len(ret.content) < settings.chunk_size)
        => ret.value[2] = 1

\* C16, amended: a text shorter than chunk_size that has a character other
\* than white space makes exactly one chunk, the text without the white
\* space around it, with chunk_index 0 and total_chunks 1, and the upload
\* returns 1; an empty text or one of white space only makes no chunk and
\* the upload returns 0.
C16_ShortTextOneChunkUnlessBlank ==
    (ret.op = "upload" /\ ret.error = None
       /\ Len(ret.content) < settings.chunk_size)
        => IF \E i \in 1..Len(ret.content) : ret.content[i] \notin { " ", NL }
           THEN /\ ret.value[2] = 1
                /\ BagCardinality(collection) = 1
                /\ \A c \in BagToSet(collection) :
                      /\ c.chunk_index = 0 /\ c.total_chunks = 1
                      /\ c.source = ret.filename
                      /\ \E i, j \in 1..Len(ret.content) :
                            /\ c.page_content = SubSeq(ret.content, i, j)
                            /\ \A k \in 1..Len(ret.content) :
                                  (k < i \/ k > j)
                                     => ret.content[k] \in { " ", NL }
                            /\ ret.content[i] \notin { " ", NL }
                            /\ ret.content[j] \notin { " ", NL }
           ELSE /\ ret.value[2] = 0
                /\ collection = EmptyBag

\* A text of three characters with white space at both ends, under
\* chunk_size 4: one chunk of one character.
C16_Witness ==
    /\ ret.op = "upload" /\ ret.error = None
    /\ settings.chunk_size = 4 /\ Len(ret.content) = 3
    /\ ret.value[2] = 1
    /\ \E c \in BagToSet(collection) : Len(c.page_content) = 1

\* The longest k for which the last k characters of p are the first k of n.
SharedLength(p, n) ==
    LET ks == { k \in 0..(IF Len(p) < Len(n) THEN Len(p) ELSE Len(n)) :
                  SubSeq(p, Len(p) - k + 1, Len(p)) = SubSeq(n, 1, k) }
    IN  CHOOSE k \in ks : \A j \in ks : j <= k

\* No character other than white space occurs twice in t.
NoRepeat(t) ==
    \A i, j \in 1..Len(t) :
        (t[i] = t[j] /\ t[i] \notin { " ", NL }) => i = j

---------------------------------------------------------------------------
(* The history the LINE handler keeps.                                     *)

\* The history stored for u, empty when none is.
StoredHistory(convs, u) == IF u \in DOMAIN convs THEN convs[u] ELSE << >>

\* The last n elements of s, all of s when it has fewer.
LastN(s, n) == SubSeq(s, IF Len(s) > n THEN Len(s) - n + 1 ELSE 1, Len(s))

\* C18: the history stored for a user has at most 20 messages and consists
\* of the user's most recent exchanges in the order of their arrival, each
\* the user's message followed by the response to it; an answered message
\* adds its exchange at the end and, when that makes more than 20 messages,
\* the oldest are dropped; a message the LLM fails on changes no history.
C18_HistoryBound ==
    [][ /\ \A u \in DOMAIN conversations' :
             /\ Len(conversations'[u]) <= MAX_HISTORY
             /\ \E n \in 0..(MAX_HISTORY \div 2) :
                  /\ n <= sent'[u]
                  /\ conversations'[u]
                       = Exchanges(u, sent'[u] - n + 1, sent'[u])
        /\ \A u \in Users :
             (line_ret' # NoWebhook /\ line_ret'.status = 200
              /\ sent'[u] = sent[u] + 1
              /\ line_ret'.events = << TextEvent(u, NextText(u, sent'[u])) >>)
                => conversations'[u]
                     = LastN(StoredHistory(conversations, u)
                                \o Exchange(u, sent'[u]), MAX_HISTORY)
        /\ (line_ret' # NoWebhook /\ line_ret'.status = 500)
                => conversations' = conversations
      ]_vars

\* The eleventh message of a user was answered and no /clear came between:
\* 20 messages are stored and the first exchange is no longer among them.
C18_Witness ==
    /\ line_ret # NoWebhook /\ line_ret.status = 200
    /\ \E u \in Users :
         /\ sent[u] = 11
         /\ line_ret.events = << TextEvent(u, NextText(u, 11)) >>
         /\ u \in DOMAIN conversations
         /\ Len(conversations[u]) = MAX_HISTORY
         /\ conversations[u][1].content = NextText(u, 2)
         /\ conversations[u][MAX_HISTORY].content
              = llm_generate(NextText(u, 11))

---------------------------------------------------------------------------
(* The webhook: what is done with a request, and in which order.           *)

\* Event i of the request is a message event with a text message.
IsTextEvent(events, i) ==
    events[i].type = "message" /\ events[i].message_type = "text"

\* The handler is as it was before the step.
HandlerUnchanged ==
    /\ conversations' = conversations
    /\ use_rag' = use_rag
    /\ default_provider' = default_provider

\* C19: a request that comes while LINE is not configured ends with 503
\* before its body is read; a request whose signature is not valid ends with
\* 400 (500 when the SDK raises another exception for a missing header)
\* and nothing was done for it: no call to RAG, the LLM or the LINE API, no
\* change of a history or a setting; for a validly signed request calls are
\* made only for its message events with a text message, event after event
\* in the order of the request, and the reply for a message is sent right
\* after the LLM gave the response and carries that response; when the
\* request ends with 200 every such event got its reply.
C19_SignatureFirst ==
    [][ line_ret' # NoWebhook
          => LET w == line_ret'
             IN  IF ~ (line_settings.line_channel_secret
                       /\ line_settings.line_channel_access_token)
                 THEN /\ w.status = 503 /\ ~ w.body_read
                      /\ w.calls = << >> /\ HandlerUnchanged
                 ELSE /\ w.body_read
                      /\ w.signature = "invalid"
                           => /\ w.status = 400
                              /\ w.calls = << >> /\ HandlerUnchanged
                      /\ w.signature = "missing"
                           => /\ w.status \in { 400, 500 }
                              /\ w.calls = << >> /\ HandlerUnchanged
                      /\ w.signature = "valid"
                           => /\ w.status \in { 200, 500 }
                              /\ \A k \in 1..Len(w.calls) :
                                   /\ w.calls[k].event \in 1..Len(w.events)
                                   /\ IsTextEvent(w.events, w.calls[k].event)
                                   /\ k > 1 => w.calls[k - 1].event
                                                 <= w.calls[k].event
                                   /\ (w.calls[k].call = "reply"
                                       /\ w.events[w.calls[k].event].text[1]
                                            # "/")
                                        => /\ k > 1
                                           /\ w.calls[k - 1].call = "llm"
                                           /\ w.calls[k - 1].event
                                                = w.calls[k].event
                                           /\ Concat(w.calls[k].messages)
                                                = llm_generate(
                                                    w.events[w.calls[k].event]
                                                      .text)
                              /\ w.status = 200
                                   => \A i \in 1..Len(w.events) :
                                        IsTextEvent(w.events, i)
                                          <=> Cardinality(
                                                { k \in 1..Len(w.calls) :
                                                    /\ w.calls[k].event = i
                                                    /\ w.calls[k].call
                                                         = "reply" }) = 1
      ]_vars

\* A request of two messages with an invalid signature, to a handler that
\* holds a history: 400, no call, the history as it was.
C19_Witness ==
    /\ line_ret # NoWebhook
    /\ line_ret.signature = "invalid" /\ line_ret.status = 400
    /\ Len(line_ret.events) = 2
    /\ \A i \in 1..2 : IsTextEvent(line_ret.events, i)
    /\ line_ret.events[1].text[1] # "/"
    /\ line_ret.calls = << >>
    /\ "p" \in DOMAIN conversations /\ Len(conversations["p"]) = 2

---------------------------------------------------------------------------
(* The messages of a reply.                                                *)

\* s is the beginning of t.
IsPrefix(s, t) == Len(s) <= Len(t) /\ s = SubSeq(t, 1, Len(s))

\* C20: reply_message, with the LINE API configured, makes one request to
\* it; the messages of the request are at most 5, each has between 1 and
\* 5000 characters, put one after the other they are the beginning of the
\* text, and all of the text when it has at most 25000 characters.
C20_ReplySplit ==
    (reply_ret.state = "returned" /\ reply_ret.messaging_api)
        => /\ Len(reply_ret.calls) = 1
           /\ reply_ret.calls[1].call = "reply"
           /\ LET messages == reply_ret.calls[1].messages
              IN  /\ Len(messages) <= LINE_MAX_MESSAGES
                  /\ \A k \in 1..Len(messages) :
                       /\ Len(messages[k]) >= 1
                       /\ Len(messages[k]) <= LINE_TEXT_LIMIT
                  /\ IsPrefix(Concat(messages), reply_ret.text)
                  /\ Len(reply_ret.text) <= LINE_MAX_MESSAGES * LINE_TEXT_LIMIT
                       => Concat(messages) = reply_ret.text

\* A text of more than 25000 characters was sent: 5 messages of 5000
\* characters, the rest of the text in none of them.
C20_Witness ==
    /\ reply_ret.state = "returned" /\ reply_ret.messaging_api
    /\ reply_ret.error = None
    /\ Len(reply_ret.text) > LINE_MAX_MESSAGES * LINE_TEXT_LIMIT
    /\ Len(reply_ret.calls) = 1
    /\ Len(reply_ret.calls[1].messages) = LINE_MAX_MESSAGES
    /\ \A k \in 1..LINE_MAX_MESSAGES :
         Len(reply_ret.calls[1].messages[k]) = LINE_TEXT_LIMIT

---------------------------------------------------------------------------
(* Commands.                                                               *)

\* C21: a message that starts with "/" makes no call to the context lookup
\* and none to the LLM and makes no history longer; /clear leaves the
\* issuing user with an empty history and changes nothing else of the
\* handler; /help, /docs, /rag and /provider without or with an unknown
\* argument, and unknown commands, change nothing of the handler.
C21_CommandsOnly ==
    [][ (line_ret' # NoWebhook /\ line_ret'.events[1].text[1] = "/")
          => LET e == line_ret'.events[1]
             IN  /\ \A k \in 1..Len(line_ret'.calls) :
                       line_ret'.calls[k].call \notin { "llm", "rag" }
                 /\ \A v \in DOMAIN conversations' :
                       Len(conversations'[v])
                          <= Len(StoredHistory(conversations, v))
                 /\ e.text = ClearCommand
                      => /\ DOMAIN conversations'
                              = DOMAIN conversations \cup { e.user_id }
                         /\ conversations'[e.user_id] = << >>
                         /\ \A v \in DOMAIN conversations \ { e.user_id } :
                               conversations'[v] = conversations[v]
                         /\ use_rag' = use_rag
                         /\ default_provider' = default_provider
                 /\ e.text \in AnswerCommands => HandlerUnchanged
      ]_vars

\* p, whose message was answered before, sent /clear while q has a history:
\* p's history is empty, q's is there.
C21_Witness ==
    /\ line_ret # NoWebhook
    /\ line_ret.events = << TextEvent("p", ClearCommand) >>
    /\ line_ret.status = 200
    /\ sent["p"] >= 1
    /\ "p" \in DOMAIN conversations /\ conversations["p"] = << >>
    /\ "q" \in DOMAIN conversations /\ Len(conversations["q"]) = 2

---------------------------------------------------------------------------
(* The upload directory and the index.                                     *)

\* C22: between the calls, the raw files in the upload directory are the
\* files of the documents that list_documents returns: every raw file has
\* chunks in the collection and every source in the collection has its raw
\* file.
C22_FilesMatchIndex ==
    ret = NoRequest
        => DOMAIN files
             = { file_path_of(f) : f \in get_all_sources(collection) }

\* The records of the collection with source f, each with its number of
\* copies.
RecordsOf(coll, f) ==
    [ c \in { d \in BagToSet(coll) : d.source = f } |-> coll[c] ]

\* C23: an upload that fails leaves every document that was stored before
\* it as it was, the document of the same filename included: its raw file
\* with the same bytes, its records in the collection the same.
C23_FailedUploadKeepsEarlier ==
    [][ (ret'.op = "upload" /\ ret'.error # None)
          => \A f \in get_all_sources(collection) :
               file_path_of(f) \in DOMAIN files
                 => /\ file_path_of(f) \in DOMAIN files'
                    /\ files'[file_path_of(f)] = files[file_path_of(f)]
                    /\ RecordsOf(collection', f) = RecordsOf(collection, f)
      ]_vars

---------------------------------------------------------------------------
(* What a user's messages can change for another user.                     *)

\* What the handler reads when it processes a message of user b.
ViewOf(b, convs, rag, provider) ==
    << rag, provider, b \in DOMAIN convs, StoredHistory(convs, b) >>

\* C27 as stated: a request of one user changes nothing of what the
\* processing of another user's message reads: whether the context is
\* looked up, the provider, the other user's history.
C27_UserIsolation ==
    [][ line_ret' # NoWebhook
          => \A b \in Users \ { line_ret'.events[1].user_id } :
               ViewOf(b, conversations', use_rag', default_provider')
                 = ViewOf(b, conversations, use_rag, default_provider)
      ]_vars

\* C27, amended: a request of one user changes the history of no other
\* user, and a message is answered from the history of the user who sent
\* it, which is the one history it extends; whether the context is looked up
\* and which provider answers are settings of the handler, the same for all
\* users at any time, and the processing of a message uses them as they are.
C27_HistoryIsolation ==
    [][ line_ret' # NoWebhook
          => LET e == line_ret'.events[1]
             IN  /\ \A b \in Users \ { e.user_id } :
                       /\ b \in DOMAIN conversations'
                            <=> b \in DOMAIN conversations
                       /\ StoredHistory(conversations', b)
                            = StoredHistory(conversations, b)
                 /\ e.text[1] # "/"
                      => /\ \E k \in 1..Len(line_ret'.calls) :
                               /\ line_ret'.calls[k].call = "llm"
                               /\ line_ret'.calls[k].history
                                    = StoredHistory(conversations, e.user_id)
                               /\ line_ret'.calls[k].provider
                                    = default_provider
                         /\ use_rag
                              <=> \E k \in 1..Len(line_ret'.calls) :
                                     line_ret'.calls[k].call = "rag"
                         /\ conversations'[e.user_id]
                              = StoredHistory(conversations, e.user_id)
                                   \o Exchange(e.user_id, sent'[e.user_id])
      ]_vars

\* With the context lookup switched off and gemini chosen, a second message
\* of q was answered while p has a history of one exchange.
C27_Witness ==
    /\ line_ret # NoWebhook /\ line_ret.status = 200
    /\ line_ret.events = << TextEvent("q", NextText("q", 2)) >>
    /\ ~ use_rag
    /\ default_provider = << "g", "e", "m", "i", "n", "i" >>
    /\ "p" \in DOMAIN conversations /\ conversations["p"] = Exchange("p", 1)
    /\ Len(conversations["q"]) = 4

---------------------------------------------------------------------------
(* Messages of one user in flight at the same time.                        *)

\* The history h holds the exchange of the message `text`.
ContainsExchange(h, text) ==
    \E k \in 1..(Len(h) - 1) :
        /\ h[k] = [ role |-> "user", content |-> text ]
        /\ h[k + 1] = [ role |-> "assistant", content |-> llm_generate(text) ]

\* C25: when two messages of a user were both answered, and the user sent
\* no /clear, the user's stored history holds the exchanges of both.
C25_NoLostExchange ==
    \A i, j \in 1..Len(tasks) :
        (/\ i # j
         /\ tasks[i].user = tasks[j].user
         /\ tasks[i].kind = "message" /\ tasks[i].pc = "done"
         /\ tasks[j].kind = "message" /\ tasks[j].pc = "done"
         /\ \A k \in 1..Len(tasks) :
               ~ (tasks[k].kind = "clear" /\ tasks[k].user = tasks[i].user))
            => /\ tasks[i].user \in DOMAIN conversations
               /\ ContainsExchange(conversations[tasks[i].user],
                                   tasks[i].text)
               /\ ContainsExchange(conversations[tasks[i].user],
                                   tasks[j].text)

\* C26: no stored history of a user holds a message that was stored when
\* a /clear of that user was handled.
C26_ClearEffective ==
    \A u \in DOMAIN conversations :
        \A k \in 1..Len(conversations[u]) :
            conversations[u][k].content \notin forgotten[u]


---------------------------------------------------------------------------
(* An upload and a delete of one filename in flight at the same time.      *)

\* Both calls are over: each returned or raised.
BothCompleted ==
    /\ race.upload.pc \in { "returned", "raised" }
    /\ race.delete.pc \in { "returned", "raised" }

\* C24: once an upload and a delete of the same filename f that ran at the
\* same time are both over, either the raw file of f exists and at least
\* one chunk of f is indexed, or there is neither a raw file nor a chunk of
\* f; and a delete that returned false removed no raw file (it changed no
\* index either: delete_by_source found nothing).
C24_PresentOrAbsent ==
    BothCompleted =>
        /\ file_path_of(race.filename) \in DOMAIN files
               <=> ~ Absent(race.filename)
        /\ (race.delete.pc = "returned" /\ ~ race.delete.deleted)
               => ~ race.delete.removed

=============================================================================
